---- MODULE Spec2Model ----
(***************************************************************************)
(* Model of the ZKP e-voting repository: the MiMC two-step hash, the       *)
(* client-side MerkleTree mirror (merkleTree.js), the ZKVotingSystem       *)
(* contract on top of the ZKTree accumulator, and the event-replay         *)
(* rebuild of the mirror (initializeMerkleTree).                           *)
(*                                                                         *)
(* Field elements are integers modulo FIELD_SIZE, a small prime standing   *)
(* for the BN254 scalar field; the tree depth and the root-history depth   *)
(* are scaled down the same way.  JS arrays are 0-based, sequences here    *)
(* are 1-based: element i of a JS array is element i+1 of the sequence.    *)
(***************************************************************************)
EXTENDS Integers, Sequences, FiniteSets, TLC

\* ---------------------------------------------------------------- bounds
\* Tree depth (20 in the deployment, migrations/4_deploy_with_circomlib.js).
Levels == 2

\* Field modulus of the model (the deployment uses the BN254 scalar field).
FIELD_SIZE == 46337

\* Rounds of the MiMC Feistel permutation (220 in the deployment).
NROUNDS == 3

\* Zero leaf: keccak256("tornado") % FIELD_SIZE, reduced to the model field.
ZERO_VALUE == 9677

\* Depth of the root history ring (30 in the deployment).
ROOT_HISTORY_SIZE == 2

\* Candidates the admin may add.
MaxCandidates == 1

\* Block time is explored up to this many seconds.
MaxTime == 60

\* Roots the admin may inject with addRootForTesting, each once: values no
\* insertion produces.
BogusRoots == {4242}

\* Candidates and voters of the vote count.
MaxCountCandidates == 2

\* Insertions of a growing tree.
MaxInserts == 4

\* Solidity `1 minutes`.
OneMinute == 60

\* ------------------------------------------------------- number encodings
Pow2(n) == 2 ^ n

RECURSIVE digitsOf(_, _)
digitsOf(n, base) ==
  IF n < base THEN <<n>> ELSE Append(digitsOf(n \div base, base), n % base)

RECURSIVE valueOf(_, _)
valueOf(s, base) ==
  IF Len(s) = 0 THEN 0
  ELSE valueOf(SubSeq(s, 1, Len(s) - 1), base) * base + s[Len(s)]

\* BigInt.prototype.toString(): the decimal digits, most significant first.
toString(n) == digitsOf(n, 10)

\* BigInt(decimalString)
BigInt(s) == valueOf(s, 10)

\* Hex digits of a bytes32 / uint256 value as ethers returns it ("0x" dropped).
toHex(n) == digitsOf(n, 16)

\* hexToBigInt(hexStr)
hexToBigInt(s) == valueOf(s, 16)

\* A JS value that is either a "0x" hex string or a decimal string.
HexStr(digits) == [hex |-> TRUE, digits |-> digits]

DecStr(digits) == [hex |-> FALSE, digits |-> digits]

\* formatForComparison(value): the decimal string of the value.
formatForComparison(value) ==
  IF value.hex THEN toString(hexToBigInt(value.digits))
  ELSE toString(BigInt(value.digits))

\* ------------------------------------------------------------------ MiMC
\* Round constants of the sponge permutation: first and last are zero.
cts(i) == IF i = 0 \/ i = NROUNDS - 1 THEN 0 ELSE (7919 * i + 104729) % FIELD_SIZE

\* mimc.F.e(x): reduction into the field.
Fe(x) == x % FIELD_SIZE

\* t^5 in the field (F.square twice, then F.mul).
pow5(t) ==
  LET t2 == (t * t) % FIELD_SIZE
      t4 == (t2 * t2) % FIELD_SIZE
  IN  (t4 * t) % FIELD_SIZE

RECURSIVE mimcRounds(_, _, _, _)
mimcRounds(i, xL, xR, k) ==
  IF i >= NROUNDS THEN [xL |-> xL, xR |-> xR]
  ELSE LET t == IF i = 0 THEN (xL + k) % FIELD_SIZE
                ELSE (xL + k + cts(i)) % FIELD_SIZE
       IN  IF i < NROUNDS - 1
           THEN mimcRounds(i + 1, (xR + pow5(t)) % FIELD_SIZE, xL, k)
           ELSE mimcRounds(i + 1, xL, (xR + pow5(t)) % FIELD_SIZE, k)

\* mimc.hash(xL, xR, k): the Feistel permutation, both halves returned.
mimcHash(xL, xR, k) == mimcRounds(0, Fe(xL), Fe(xR), Fe(k))

\* calculateHash(mimc, left, right): the two-step sponge of merkleTree.js.
calculateHashOneStep(left, right) == mimcHash(Fe(left), Fe(right), 0).xL

calculateHash(left, right) ==
  LET result1 == mimcHash(Fe(left), Fe(0), 0)
      R       == (result1.xL + Fe(right)) % FIELD_SIZE
      result2 == mimcHash(R, result1.xR, 0)
  IN  result2.xL

\* calculateHash of zkProofs.js: the inputs pass through toString and BigInt.
zkProofs_calculateHash(left, right) ==
  LET leftBigInt  == BigInt(toString(left))
      rightBigInt == BigInt(toString(right))
      result1     == mimcHash(Fe(leftBigInt), Fe(0), 0)
      R           == (result1.xL + Fe(rightBigInt)) % FIELD_SIZE
      result2     == mimcHash(R, result1.xR, 0)
  IN  result2.xL

\* calculateHash of circyomWrapper.js.
circyomWrapper_calculateHash(left, right) ==
  LET leftBigInt  == BigInt(toString(left))
      rightBigInt == BigInt(toString(right))
      result1     == mimcHash(Fe(leftBigInt), Fe(0), 0)
      R           == (result1.xL + Fe(rightBigInt)) % FIELD_SIZE
      result2     == mimcHash(R, result1.xR, 0)
  IN  result2.xL

\* generateZeros(mimc, levels): zeros[i] is element i+1.
RECURSIVE generateZeros(_)
generateZerosOneSided(levels) ==
  IF levels = 0 THEN <<ZERO_VALUE>>
  ELSE LET z == generateZeros(levels - 1)
       IN  Append(z, calculateHash(z[levels], 0))

generateZeros(levels) ==
  IF levels = 0 THEN <<ZERO_VALUE>>
  ELSE LET z == generateZeros(levels - 1)
       IN  Append(z, calculateHash(z[levels], z[levels]))

\* ------------------------------------------- calculateMerkleRootAndPath
\* JS null / undefined (no field element is negative).
Null == 0 - 1

NoElement == Null

\* One layer from the layer below it (the inner loop of lines 81-87).
nextLayer(prev, zero) ==
  [i \in 1..((Len(prev) + 1) \div 2) |->
     calculateHash(prev[2 * i - 1],
                   IF 2 * i <= Len(prev) THEN prev[2 * i] ELSE zero)]

RECURSIVE buildLayers(_, _, _)
buildLayers(levels, elements, zeros) ==
  IF levels = 0 THEN <<elements>>
  ELSE LET below == buildLayers(levels - 1, elements, zeros)
       IN  Append(below, nextLayer(below[levels], zeros[levels]))

\* layers[0].findIndex(e => BigInt(e) === BigInt(element)); -1 if absent.
findIndex(elements, element) ==
  IF \E i \in 1..Len(elements) : elements[i] = element
  THEN (CHOOSE i \in 1..Len(elements) :
          /\ elements[i] = element
          /\ \A j \in 1..(i - 1) : elements[j] # element) - 1
  ELSE -1

\* index ^ 1
xor1(index) == IF index % 2 = 0 THEN index + 1 ELSE index - 1

RECURSIVE pathFrom(_, _, _, _, _)
pathFrom(level, levels, index, layers, zeros) ==
  IF level >= levels THEN [pathElements |-> <<>>, pathIndices |-> <<>>]
  ELSE LET rest == pathFrom(level + 1, levels, index \div 2, layers, zeros)
           sib  == IF xor1(index) < Len(layers[level + 1])
                   THEN layers[level + 1][xor1(index) + 1]
                   ELSE zeros[level + 1]
       IN  [pathElements |-> <<sib>> \o rest.pathElements,
            pathIndices  |-> <<index % 2>> \o rest.pathIndices]

\* `if (element)`: null and the BigInt 0n are both falsy.
truthy(element) == element # NoElement /\ element # 0

calculateMerkleRootAndPath(levels, elements, element) ==
  IF Len(elements) > Pow2(levels) THEN [err |-> "Tree is full"]
  ELSE LET zeros  == generateZeros(levels)
           layers == buildLayers(levels, elements, zeros)
           root   == IF Len(layers[levels + 1]) > 0
                     THEN layers[levels + 1][1] ELSE zeros[levels + 1]
           index  == findIndex(elements, element)
       IN  IF truthy(element) /\ index = -1
           THEN [err |-> "Element not found in tree"]
           ELSE LET p == IF truthy(element)
                         THEN pathFrom(0, levels, index, layers, zeros)
                         ELSE [pathElements |-> <<>>, pathIndices |-> <<>>]
                IN  [err          |-> "",
                     root         |-> toString(root),
                     pathElements |-> [l \in 1..Len(p.pathElements) |->
                                         toString(p.pathElements[l])],
                     pathIndices  |-> p.pathIndices]

\* checkMerkleProof(mimc, levels, pathElements, pathIndices, element)
RECURSIVE checkMerkleProof(_, _, _, _, _)
checkMerkleProof(i, levels, pathElements, pathIndices, current) ==
  IF i >= levels THEN current
  ELSE LET pathElement == BigInt(pathElements[i + 1])
       IN  checkMerkleProof(i + 1, levels, pathElements, pathIndices,
             IF pathIndices[i + 1] = 0
             THEN calculateHash(current, pathElement)
             ELSE calculateHash(pathElement, current))

\* ------------------------------------------------------ class MerkleTree
\* new MerkleTree(levels)
NewMerkleTree(levels) ==
  [levels |-> levels, leaves |-> <<>>, zeros |-> <<>>, filledSubTrees |-> <<>>,
   root |-> Null, initialized |-> FALSE]

\* MerkleTree.initialize()
initializeRootSeed(t) ==
  IF t.initialized THEN t
  ELSE LET z == generateZeros(t.levels)
       IN  [t EXCEPT !.zeros = z, !.filledSubTrees = z,
                     !.root = z[1], !.initialized = TRUE]

initialize(t) ==
  IF t.initialized THEN t
  ELSE LET z == generateZeros(t.levels)
       IN  [t EXCEPT !.zeros = z, !.filledSubTrees = z,
                     !.root = z[t.levels + 1], !.initialized = TRUE]

\* The level loop of MerkleTree.insert; len is leaves.length after the push.
RECURSIVE insertLoop(_, _, _, _, _, _)
insertLoop(t, len, i, currentIndex, currentHash, fst) ==
  IF i >= t.levels THEN [root |-> currentHash, filledSubTrees |-> fst]
  ELSE LET isLeft       == currentIndex % 2 = 0
           siblingIndex == IF isLeft THEN currentIndex + 1 ELSE currentIndex - 1
           rightmost    == isLeft /\ siblingIndex = len
           exists       == ~rightmost /\ siblingIndex < len
           fst2         == IF exists /\ isLeft
                           THEN [fst EXCEPT ![i + 1] = currentHash] ELSE fst
           siblingHash  == IF rightmost THEN t.zeros[i + 1]
                           ELSE IF exists
                                THEN (IF isLeft THEN t.zeros[i + 1] ELSE fst2[i + 1])
                                ELSE t.zeros[i + 1]
           parent       == IF isLeft THEN calculateHash(currentHash, siblingHash)
                           ELSE calculateHash(siblingHash, currentHash)
       IN  insertLoop(t, len, i + 1, currentIndex \div 2, parent, fst2)

\* MerkleTree.insert(leaf): the tree after the call and what the call returns.
insertIndexAfterPush(t, leaf) ==
  IF ~t.initialized
  THEN [tree |-> t, err |-> "Merkle tree not initialized", index |-> Null]
  ELSE LET leafBigInt == BigInt(leaf)
           leaves2    == Append(t.leaves, leafBigInt)
           index      == Len(leaves2)
           r          == insertLoop(t, Len(leaves2), 0, index, leafBigInt,
                                    t.filledSubTrees)
       IN  [tree  |-> [t EXCEPT !.leaves = leaves2,
                                !.filledSubTrees = r.filledSubTrees,
                                !.root = r.root],
            err   |-> "",
            index |-> index]

insert(t, leaf) ==
  IF ~t.initialized
  THEN [tree |-> t, err |-> "Merkle tree not initialized", index |-> Null]
  ELSE LET leafBigInt == BigInt(leaf)
           index      == Len(t.leaves)
           leaves2    == Append(t.leaves, leafBigInt)
           r          == insertLoop(t, Len(leaves2), 0, index, leafBigInt,
                                    t.filledSubTrees)
       IN  [tree  |-> [t EXCEPT !.leaves = leaves2,
                                !.filledSubTrees = r.filledSubTrees,
                                !.root = r.root],
            err   |-> "",
            index |-> index]

NoProof == [root |-> <<>>, pathElements |-> <<>>, pathIndices |-> <<>>, leaf |-> <<>>]

\* Nothing returned yet.
NoRet ==
  [op |-> "none", arg |-> Null, err |-> "", index |-> Null, proof |-> NoProof,
   value |-> Null]

\* MerkleTree.generateProof(index)
generateProofOfLast(t, index) ==
  IF ~t.initialized \/ Len(t.leaves) = 0
  THEN [err |-> "Merkle tree not initialized", proof |-> NoProof]
  ELSE LET element == t.leaves[IF index \in 0..(Len(t.leaves) - 1)
                               THEN index + 1 ELSE Len(t.leaves)]
           result  == calculateMerkleRootAndPath(t.levels, t.leaves, element)
       IN  IF result.err # "" THEN [err |-> result.err, proof |-> NoProof]
           ELSE [err   |-> "",
                 proof |-> [root         |-> result.root,
                            pathElements |-> result.pathElements,
                            pathIndices  |-> result.pathIndices,
                            leaf         |-> toString(element)]]

\* A negative index passes the bounds test; leaves[index] is undefined, the
\* path computation runs without an element and `element.toString()` throws.
generateProof(t, index) ==
  IF ~t.initialized
  THEN [err |-> "Merkle tree not initialized", proof |-> NoProof]
  ELSE IF index >= Len(t.leaves)
  THEN [err |-> "Leaf index out of bounds", proof |-> NoProof]
  ELSE IF index < 0
  THEN LET result == calculateMerkleRootAndPath(t.levels, t.leaves, NoElement)
       IN  [err   |-> IF result.err # "" THEN result.err
                      ELSE "TypeError: Cannot read properties of undefined",
            proof |-> NoProof]
  ELSE LET element == t.leaves[index + 1]
           result  == calculateMerkleRootAndPath(t.levels, t.leaves, element)
       IN  IF result.err # "" THEN [err |-> result.err, proof |-> NoProof]
           ELSE [err   |-> "",
                 proof |-> [root         |-> result.root,
                            pathElements |-> result.pathElements,
                            pathIndices  |-> result.pathIndices,
                            leaf         |-> toString(element)]]

\* ------------------------------------------------- ZKTree (accumulator)
\* Accumulator state of the contract: empty tree of the given depth with the
\* empty root recorded in slot 0 of the root history.
NewZKTree(levels) ==
  LET z == generateZeros(levels)
  IN  [levels           |-> levels,
       zeros            |-> z,
       filledSubtrees   |-> SubSeq(z, 1, levels),
       nextIndex        |-> 0,
       roots            |-> [i \in 0..(ROOT_HISTORY_SIZE - 1) |->
                               IF i = 0 THEN z[levels + 1] ELSE Null],
       currentRootIndex |-> 0]

\* hash2 of the accumulator: inputs outside the field are rejected.
hashLeftRight(left, right) ==
  IF left >= FIELD_SIZE \/ right >= FIELD_SIZE THEN Null
  ELSE calculateHash(left, right)

\* The level walk of an insertion: a left node is stored as the checkpoint of
\* its level and paired with the zero of the level, a right node is paired
\* with the stored checkpoint.
RECURSIVE zkInsertLoop(_, _, _, _, _)
zkInsertLoop(zk, i, currentIndex, currentLevelHash, fst) ==
  IF i >= zk.levels THEN [root |-> currentLevelHash, filledSubtrees |-> fst]
  ELSE IF currentIndex % 2 = 0
  THEN zkInsertLoop(zk, i + 1, currentIndex \div 2,
                    hashLeftRight(currentLevelHash, zk.zeros[i + 1]),
                    [fst EXCEPT ![i + 1] = currentLevelHash])
  ELSE zkInsertLoop(zk, i + 1, currentIndex \div 2,
                    hashLeftRight(fst[i + 1], currentLevelHash), fst)

\* record(root): the new root overwrites the oldest slot of the ring.
recordRoot(zk, root) ==
  LET newRootIndex == (zk.currentRootIndex + 1) % ROOT_HISTORY_SIZE
  IN  [zk EXCEPT !.currentRootIndex = newRootIndex, !.roots[newRootIndex] = root]

\* _insert(leaf): "" and the new accumulator, or the reason of the failure.
zkInsert(zk, leaf) ==
  IF zk.nextIndex = Pow2(zk.levels)
  THEN [err |-> "Merkle tree is full. No more leaves can be added", zk |-> zk]
  ELSE IF leaf >= FIELD_SIZE
  THEN [err |-> "leaf should be inside the field", zk |-> zk]
  ELSE LET r == zkInsertLoop(zk, 0, zk.nextIndex, leaf, zk.filledSubtrees)
       IN  [err |-> "",
            zk  |-> recordRoot([zk EXCEPT !.filledSubtrees = r.filledSubtrees,
                                          !.nextIndex = zk.nextIndex + 1],
                               r.root)]

\* isKnownRoot(root): linear scan of the ring.
isKnownRoot(zk, root) ==
  \E i \in 0..(ROOT_HISTORY_SIZE - 1) : zk.roots[i] # Null /\ zk.roots[i] = root

\* getLastRoot()
getLastRoot(zk) == zk.roots[zk.currentRootIndex]

\* initializeMerkleTree not called yet; contractRoot is the localStorage item,
\* before is the tree the singleton held when the running call started.
NoMirror ==
  [pc |-> "idle", outcome |-> "none", caught |-> "", lastRoot |-> HexStr(<<>>),
   fetched |-> FALSE, commitEvents |-> <<>>, warned |-> FALSE,
   contractRoot |-> <<>>, before |-> NewMerkleTree(Levels)]

\* ------------------------------------------------------------- variables
VARIABLES
  treeInstance,   \* merkleTree.js: the MerkleTree object in use
  ret,            \* what the last call on the tree returned or threw
  mirror,         \* initializeMerkleTree: where the call stands, what it read
  zkTree,         \* ZKTree: filledSubtrees, nextIndex, roots, currentRootIndex
  nullifiers,     \* ZKTree: nullifier hashes already consumed
  candidates,     \* ZKVotingSystem.candidates, ids 1..candidatesCount
  voters,         \* ZKVotingSystem.voters
  uniqueHashes,   \* ZKVotingSystem.uniqueHashes
  votingStatus,   \* ZKVotingSystem.votingStatus
  votingFlags,    \* ZKVotingSystem.votingStarted, votingEnded, endTime
  totalVotes,     \* ZKVotingSystem.totalVotes
  events,         \* event log of the contract: Commit, VoterRegistered, VoteCast
  recorded,       \* every root ever written to the root history, in order
  now,            \* block.timestamp
  lastVote        \* the last vote transaction and its outcome (its receipt)

treeVars == <<treeInstance, ret, mirror>>

contractVars == <<zkTree, nullifiers, candidates, voters, uniqueHashes,
                  votingStatus, votingFlags, totalVotes, events, recorded,
                  now, lastVote>>

vars == <<treeVars, contractVars>>

\* ------------------------------------------------------ ZKVotingSystem
admin == "admin"

\* Accounts that send transactions, and the addresses the admin registers.
Senders == {"admin", "alice"}

VoterAddresses == {"alice"}

candidatesCount == Len(candidates)

NoVote == [sent |-> FALSE, err |-> ""]

\* State right after the constructor of ZKVotingSystem (and of ZKTree).
InitContract ==
  /\ zkTree = NewZKTree(Levels)
  /\ nullifiers = {}
  /\ candidates = <<>>
  /\ voters = [a \in VoterAddresses |-> [uniqueHash |-> 0, registered |-> FALSE]]
  /\ uniqueHashes = {}
  /\ votingStatus = [isActive |-> FALSE, endTime |-> 0]
  /\ votingFlags = [votingStarted |-> FALSE, votingEnded |-> FALSE, endTime |-> 0]
  /\ totalVotes = 0
  /\ events = [Commit |-> <<>>, VoterRegistered |-> <<>>, VoteCast |-> <<>>]
  /\ recorded = <<getLastRoot(NewZKTree(Levels))>>
  /\ now = 0
  /\ lastVote = NoVote

\* A reverted transaction changes no state of the contract.
Revert ==
  UNCHANGED <<zkTree, nullifiers, candidates, voters, uniqueHashes,
              votingStatus, votingFlags, totalVotes, events, recorded, now,
              lastVote>>

\* modifier onlyAdmin
onlyAdminSkipped(sender) == ""

onlyAdmin(sender) ==
  IF sender # admin THEN "Only admin can call this function" ELSE ""

\* modifier votingActive
votingActiveNoDeadline ==
  IF ~votingStatus.isActive THEN "Voting is not active" ELSE ""

votingActive ==
  IF ~votingStatus.isActive THEN "Voting is not active"
  ELSE IF ~(now < votingStatus.endTime) THEN "Voting period has ended"
  ELSE ""

\* modifier votingNotStarted
votingNotStarted ==
  IF votingFlags.votingStarted THEN "Voting has already started" ELSE ""

\* The first failing check of a list of checks, "" when all pass.
firstErr(checks) ==
  IF \E i \in 1..Len(checks) : checks[i] # ""
  THEN checks[CHOOSE i \in 1..Len(checks) :
                /\ checks[i] # ""
                /\ \A j \in 1..(i - 1) : checks[j] = ""]
  ELSE ""

\* addCandidate(_name, _details)
addCandidate(sender) ==
  LET err == firstErr(<<onlyAdmin(sender), votingNotStarted>>)
  IN  IF err # "" THEN Revert
      ELSE /\ candidates' = Append(candidates,
                                   [id |-> candidatesCount + 1, voteCount |-> 0,
                                    exists |-> TRUE])
           /\ UNCHANGED <<zkTree, nullifiers, voters, uniqueHashes, votingStatus,
                          votingFlags, totalVotes, events, recorded, now,
                          lastVote>>

\* _commit(commitment): the insertion, the Commit event and the new root.
\* The timestamp field of the event is read nowhere and is left out.
commitErr(commitment) == zkInsert(zkTree, commitment).err

\* registerVoter(_voterAddress, _uniqueHash, _commitment)
registerVoterErrNoHashCheck(sender, voterAddress, uniqueHash, commitment) ==
  firstErr(<<onlyAdmin(sender),
             IF voters[voterAddress].registered THEN "Voter already registered" ELSE "",
             commitErr(commitment)>>)

registerVoterErr(sender, voterAddress, uniqueHash, commitment) ==
  firstErr(<<onlyAdmin(sender),
             IF voters[voterAddress].registered THEN "Voter already registered" ELSE "",
             IF uniqueHash \in uniqueHashes THEN "This unique hash is already used" ELSE "",
             commitErr(commitment)>>)

registerVoter(sender, voterAddress, uniqueHash, commitment) ==
  LET err == registerVoterErr(sender, voterAddress, uniqueHash, commitment)
      ins == zkInsert(zkTree, commitment)
  IN  IF err # "" THEN Revert
      ELSE /\ voters' = [voters EXCEPT ![voterAddress] =
                           [uniqueHash |-> uniqueHash, registered |-> TRUE]]
           /\ uniqueHashes' = uniqueHashes \cup {uniqueHash}
           /\ zkTree' = ins.zk
           /\ recorded' = Append(recorded, getLastRoot(ins.zk))
           /\ events' = [events EXCEPT
                !.Commit = Append(@, [commitment |-> toHex(commitment),
                                      leafIndex  |-> zkTree.nextIndex]),
                !.VoterRegistered = Append(@, [voterAddress |-> voterAddress,
                                               commitment   |-> toHex(commitment)])]
           /\ UNCHANGED <<nullifiers, candidates, votingStatus, votingFlags,
                          totalVotes, now,
                          lastVote>>

\* unregisterVoter(_voterAddress)
unregisterVoter(sender, voterAddress) ==
  LET err == firstErr(<<onlyAdmin(sender),
                        IF ~voters[voterAddress].registered
                        THEN "Voter not registered" ELSE "">>)
  IN  IF err # "" THEN Revert
      ELSE /\ voters' = [voters EXCEPT ![voterAddress].registered = FALSE]
           /\ UNCHANGED <<zkTree, nullifiers, candidates, uniqueHashes,
                          votingStatus, votingFlags, totalVotes, events,
                          recorded, now,
                          lastVote>>

\* startVoting(_durationInMinutes)
startVoting(sender, durationInMinutes) ==
  LET err == firstErr(<<onlyAdmin(sender), votingNotStarted,
                        IF ~(candidatesCount > 0) THEN "No candidates added yet" ELSE "",
                        IF ~(durationInMinutes > 0)
                        THEN "Duration must be greater than 0" ELSE "">>)
  IN  IF err # "" THEN Revert
      ELSE /\ votingStatus' = [isActive |-> TRUE,
                               endTime  |-> now + durationInMinutes * OneMinute]
           /\ UNCHANGED <<zkTree, nullifiers, candidates, voters, uniqueHashes,
                          votingFlags, totalVotes, events, recorded, now,
                          lastVote>>

\* endVoting()
endVoting(sender) ==
  LET err == firstErr(<<onlyAdmin(sender), votingActive>>)
  IN  IF err # "" THEN Revert
      ELSE /\ votingStatus' = [votingStatus EXCEPT !.isActive = FALSE]
           /\ votingFlags' = [votingFlags EXCEPT !.votingEnded = TRUE,
                                                 !.endTime = now]
           /\ UNCHANGED <<zkTree, nullifiers, candidates, voters, uniqueHashes,
                          totalVotes, events, recorded, now,
                          lastVote>>

\* getVotingStatus()
getVotingStatus ==
  IF votingStatus.isActive /\ now < votingStatus.endTime
  THEN [isActive |-> TRUE, remainingTime |-> votingStatus.endTime - now]
  ELSE [isActive |-> FALSE, remainingTime |-> 0]

\* _nullify(nullifier, root, proof): the checks, in order.
nullifyErr(nullifier, root, proofValid) ==
  firstErr(<<IF nullifier \in nullifiers THEN "The nullifier has been submitted" ELSE "",
             IF ~isKnownRoot(zkTree, root) THEN "Cannot find your merkle root" ELSE "",
             IF ~proofValid THEN "Invalid proof" ELSE "">>)

\* _nullify: the registry once the nullifier is marked as consumed.
unmarked(nullifier) == nullifiers

nullified(nullifier) == nullifiers \cup {nullifier}

\* candidates[_candidateId].voteCount++
countVoteForAll(candidateId) ==
  [i \in 1..candidatesCount |-> [candidates[i] EXCEPT !.voteCount = @ + 1]]

countVote(candidateId) ==
  [candidates EXCEPT ![candidateId].voteCount = @ + 1]

\* candidates[_candidateId].exists
candidateExists(candidateId) ==
  candidateId \in 1..candidatesCount /\ candidates[candidateId].exists

\* The reason vote(...) reverts with, "" when it succeeds.
voteErr(candidateId, nullifier, root, proofValid) ==
  firstErr(<<votingActive,
             IF ~candidateExists(candidateId) THEN "Candidate does not exist" ELSE "",
             nullifyErr(nullifier, root, proofValid)>>)

\* vote(...) were a failed _nullify to keep the nullifier marked.
voteKeepsMark(candidateId, nullifier, root, proofValid) ==
  LET err == voteErr(candidateId, nullifier, root, proofValid)
  IN  IF err # ""
      THEN /\ lastVote' = [sent |-> TRUE, err |-> err]
           /\ nullifiers' = IF err = nullifyErr(nullifier, root, proofValid)
                            THEN nullified(nullifier) ELSE nullifiers
           /\ UNCHANGED <<zkTree, candidates, voters, uniqueHashes,
                          votingStatus, votingFlags, totalVotes, events,
                          recorded, now>>
      ELSE /\ nullifiers' = nullified(nullifier)
           /\ candidates' = countVote(candidateId)
           /\ totalVotes' = totalVotes + 1
           /\ events' = [events EXCEPT
                !.VoteCast = Append(@, [nullifier   |-> nullifier,
                                        candidateId |-> candidateId])]
           /\ lastVote' = [sent |-> TRUE, err |-> ""]
           /\ UNCHANGED <<zkTree, voters, uniqueHashes, votingStatus,
                          votingFlags, recorded, now>>

\* vote(_candidateId, _nullifier, _root, _proof_a, _proof_b, _proof_c); the
\* verifier's verdict on the proof for (nullifier, root) is an input. The
\* function reads no msg.sender: any account may send it.
vote(candidateId, nullifier, root, proofValid) ==
  LET err == voteErr(candidateId, nullifier, root, proofValid)
  IN  IF err # ""
      THEN /\ lastVote' = [sent |-> TRUE, err |-> err]
           /\ UNCHANGED <<zkTree, nullifiers, candidates, voters, uniqueHashes,
                          votingStatus, votingFlags, totalVotes, events,
                          recorded, now>>
      ELSE /\ nullifiers' = nullified(nullifier)
           /\ candidates' = countVote(candidateId)
           /\ totalVotes' = totalVotes + 1
           /\ events' = [events EXCEPT
                !.VoteCast = Append(@, [nullifier   |-> nullifier,
                                        candidateId |-> candidateId])]
           /\ lastVote' = [sent |-> TRUE, err |-> ""]
           /\ UNCHANGED <<zkTree, voters, uniqueHashes, votingStatus,
                          votingFlags, recorded, now>>

\* addRootForTesting(root): the admin writes a root into the root history.
addRootForTesting(sender, root) ==
  LET err == onlyAdmin(sender)
  IN  IF err # "" THEN Revert
      ELSE /\ Len(recorded) - zkTree.nextIndex - 1 < Cardinality(BogusRoots)
           /\ zkTree' = recordRoot(zkTree, root)
           /\ recorded' = Append(recorded, root)
           /\ UNCHANGED <<nullifiers, candidates, voters, uniqueHashes,
                          votingStatus, votingFlags, totalVotes, events, now,
                          lastVote>>

\* A block later: block.timestamp advances.
Tick ==
  /\ now + OneMinute <= MaxTime
  /\ now' = now + OneMinute
  /\ UNCHANGED <<zkTree, nullifiers, candidates, voters, uniqueHashes,
                 votingStatus, votingFlags, totalVotes, events, recorded, lastVote>>

\* Voter credentials (nullifier, secret) of the model.
Credentials == {[nullifier |-> 11, secret |-> 21], [nullifier |-> 12, secret |-> 22]}

\* The unique hash the admin files a credential under.
uniqueHashOf(c) == c.nullifier - 10

\* generateCommitment: commitment and nullifier hash of a credential.
commitmentOf(c) == calculateHash(c.nullifier, c.secret)

nullifierHashOf(c) == calculateHash(c.nullifier, 0)

NullifierInputs == {nullifierHashOf(c) : c \in Credentials}

\* Roots a caller may present: every root recorded so far and the bogus ones.
RootInputs == {recorded[i] : i \in 1..Len(recorded)} \cup BogusRoots

InitVote ==
  /\ InitContract
  /\ treeInstance = NewMerkleTree(Levels)
  /\ ret = NoRet
  /\ mirror = NoMirror

NextVote ==
  \/ \E s \in Senders :
        candidatesCount < MaxCandidates /\ addCandidate(s) /\ UNCHANGED treeVars
  \/ \E s \in Senders, a \in VoterAddresses, c \in Credentials :
        registerVoter(s, a, uniqueHashOf(c), commitmentOf(c)) /\ UNCHANGED treeVars
  \/ \E s \in Senders, a \in VoterAddresses :
        unregisterVoter(s, a) /\ UNCHANGED treeVars
  \/ \E s \in Senders, d \in 0..1 : startVoting(s, d) /\ UNCHANGED treeVars
  \/ \E s \in Senders : endVoting(s) /\ UNCHANGED treeVars
  \/ \E cid \in 0..MaxCandidates, n \in NullifierInputs, r \in RootInputs,
        ok \in BOOLEAN : vote(cid, n, r, ok) /\ UNCHANGED treeVars
  \/ \E s \in Senders, r \in BogusRoots :
        addRootForTesting(s, r) /\ UNCHANGED treeVars
  \/ Tick /\ UNCHANGED treeVars

SpecVote == InitVote /\ [][NextVote]_vars

\* ------------------------------------------------------- the vote count
\* Addresses the admin registers before the count.
CountAddresses == {"alice", "bob"}

\* State right after the constructor, with two addresses to register.
InitCount ==
  /\ zkTree = NewZKTree(Levels)
  /\ nullifiers = {}
  /\ candidates = <<>>
  /\ voters = [a \in CountAddresses |-> [uniqueHash |-> 0, registered |-> FALSE]]
  /\ uniqueHashes = {}
  /\ votingStatus = [isActive |-> FALSE, endTime |-> 0]
  /\ votingFlags = [votingStarted |-> FALSE, votingEnded |-> FALSE, endTime |-> 0]
  /\ totalVotes = 0
  /\ events = [Commit |-> <<>>, VoterRegistered |-> <<>>, VoteCast |-> <<>>]
  /\ recorded = <<getLastRoot(NewZKTree(Levels))>>
  /\ now = 0
  /\ lastVote = NoVote
  /\ treeInstance = NewMerkleTree(Levels)
  /\ ret = NoRet
  /\ mirror = NoMirror

NextCount ==
  \/ \E s \in Senders :
        candidatesCount < MaxCountCandidates /\ addCandidate(s)
          /\ UNCHANGED treeVars
  \/ \E s \in Senders, a \in CountAddresses, c \in Credentials :
        registerVoter(s, a, uniqueHashOf(c), commitmentOf(c)) /\ UNCHANGED treeVars
  \/ \E s \in Senders : startVoting(s, 1) /\ UNCHANGED treeVars
  \/ \E cid \in 0..MaxCountCandidates, n \in NullifierInputs, r \in RootInputs,
        ok \in BOOLEAN : vote(cid, n, r, ok) /\ UNCHANGED treeVars

SpecCount == InitCount /\ [][NextCount]_vars

\* -------------------------------------------------------- EVotingSystem
\* The contract without proofs keeps its state in the variables of the same
\* names: candidates, voters (isRegistered, hasVoted, votedCandidateId),
\* votingFlags (votingStarted, votingEnded, startTime, endTime), totalVotes.
EVotingSenders == {"admin", "alice", "bob"}

EVotingVoters == {"alice", "bob"}

\* modifier votingActive of EVotingSystem
EVotingSystem_votingActive ==
  IF ~(votingFlags.votingStarted /\ ~votingFlags.votingEnded)
  THEN "Voting is not active" ELSE ""

\* modifier votingNotStarted of EVotingSystem
EVotingSystem_votingNotStarted ==
  IF votingFlags.votingStarted THEN "Voting has already started" ELSE ""

\* State right after the constructor of EVotingSystem.
InitEVoting ==
  /\ candidates = <<>>
  /\ voters = [a \in EVotingSenders |->
                 [isRegistered |-> FALSE, hasVoted |-> FALSE, votedCandidateId |-> 0]]
  /\ votingFlags = [votingStarted |-> FALSE, votingEnded |-> FALSE,
                    startTime |-> 0, endTime |-> 0]
  /\ totalVotes = 0
  /\ events = [Commit |-> <<>>, VoterRegistered |-> <<>>, VoteCast |-> <<>>]
  /\ now = 0
  /\ lastVote = NoVote
  /\ zkTree = NewZKTree(Levels)
  /\ nullifiers = {}
  /\ uniqueHashes = {}
  /\ votingStatus = [isActive |-> FALSE, endTime |-> 0]
  /\ recorded = <<getLastRoot(NewZKTree(Levels))>>
  /\ treeInstance = NewMerkleTree(Levels)
  /\ ret = NoRet
  /\ mirror = NoMirror

\* EVotingSystem.addCandidate(_name, _details)
EVotingSystem_addCandidate(sender) ==
  LET err == firstErr(<<onlyAdmin(sender), EVotingSystem_votingNotStarted>>)
  IN  IF err # "" THEN Revert
      ELSE /\ candidates' = Append(candidates,
                                   [id |-> candidatesCount + 1, voteCount |-> 0,
                                    exists |-> TRUE])
           /\ UNCHANGED <<zkTree, nullifiers, voters, uniqueHashes, votingStatus,
                          votingFlags, totalVotes, events, recorded, now,
                          lastVote>>

\* EVotingSystem.registerVoter(_voter)
EVotingSystem_registerVoterAgain(sender, voter) ==
  LET err == onlyAdmin(sender)
  IN  IF err # "" THEN Revert
      ELSE /\ voters' = [voters EXCEPT ![voter] =
                           [isRegistered |-> TRUE, hasVoted |-> FALSE,
                            votedCandidateId |-> 0]]
           /\ events' = [events EXCEPT !.VoterRegistered = Append(@, voter)]
           /\ UNCHANGED <<zkTree, nullifiers, candidates, uniqueHashes,
                          votingStatus, votingFlags, totalVotes, recorded, now,
                          lastVote>>

EVotingSystem_registerVoter(sender, voter) ==
  LET err == firstErr(<<onlyAdmin(sender),
                        IF voters[voter].isRegistered
                        THEN "Voter is already registered" ELSE "">>)
  IN  IF err # "" THEN Revert
      ELSE /\ voters' = [voters EXCEPT ![voter] =
                           [isRegistered |-> TRUE, hasVoted |-> FALSE,
                            votedCandidateId |-> 0]]
           /\ events' = [events EXCEPT !.VoterRegistered = Append(@, voter)]
           /\ UNCHANGED <<zkTree, nullifiers, candidates, uniqueHashes,
                          votingStatus, votingFlags, totalVotes, recorded, now,
                          lastVote>>

\* EVotingSystem.startVoting(_durationInMinutes)
EVotingSystem_startVoting(sender, durationInMinutes) ==
  LET err == firstErr(<<onlyAdmin(sender), EVotingSystem_votingNotStarted,
                        IF ~(candidatesCount > 0) THEN "No candidates added yet" ELSE "",
                        IF ~(durationInMinutes > 0)
                        THEN "Duration must be greater than 0" ELSE "">>)
  IN  IF err # "" THEN Revert
      ELSE /\ votingFlags' = [votingFlags EXCEPT
                                !.votingStarted = TRUE,
                                !.startTime = now,
                                !.endTime = now + durationInMinutes * OneMinute]
           /\ UNCHANGED <<zkTree, nullifiers, candidates, voters, uniqueHashes,
                          votingStatus, totalVotes, events, recorded, now,
                          lastVote>>

\* EVotingSystem.endVoting()
EVotingSystem_endVoting(sender) ==
  LET err == firstErr(<<onlyAdmin(sender), EVotingSystem_votingActive>>)
  IN  IF err # "" THEN Revert
      ELSE /\ votingFlags' = [votingFlags EXCEPT !.votingEnded = TRUE,
                                                 !.endTime = now]
           /\ UNCHANGED <<zkTree, nullifiers, candidates, voters, uniqueHashes,
                          votingStatus, totalVotes, events, recorded, now,
                          lastVote>>

\* The reason EVotingSystem.vote(_candidateId) reverts with, "" when it
\* succeeds.
EVotingSystem_voteErr(sender, candidateId) ==
  firstErr(<<EVotingSystem_votingActive,
             IF ~voters[sender].isRegistered THEN "Voter is not registered" ELSE "",
             IF voters[sender].hasVoted THEN "Voter has already voted" ELSE "",
             IF ~candidateExists(candidateId) THEN "Candidate does not exist" ELSE "">>)

\* EVotingSystem.vote(_candidateId)
EVotingSystem_vote(sender, candidateId) ==
  LET err == EVotingSystem_voteErr(sender, candidateId)
  IN  IF err # ""
      THEN /\ lastVote' = [sent |-> TRUE, err |-> err]
           /\ UNCHANGED <<zkTree, nullifiers, candidates, voters, uniqueHashes,
                          votingStatus, votingFlags, totalVotes, events,
                          recorded, now>>
      ELSE /\ voters' = [voters EXCEPT ![sender].hasVoted = TRUE,
                                       ![sender].votedCandidateId = candidateId]
           /\ candidates' = countVote(candidateId)
           /\ totalVotes' = totalVotes + 1
           /\ events' = [events EXCEPT
                !.VoteCast = Append(@, [voter       |-> sender,
                                        candidateId |-> candidateId])]
           /\ lastVote' = [sent |-> TRUE, err |-> ""]
           /\ UNCHANGED <<zkTree, nullifiers, uniqueHashes, votingStatus,
                          votingFlags, recorded, now>>

\* EVotingSystem.getVotingStatus()
EVotingSystem_getVotingStatus ==
  IF votingFlags.votingStarted /\ ~votingFlags.votingEnded
       /\ now < votingFlags.endTime
  THEN [isActive |-> TRUE, remainingTime |-> votingFlags.endTime - now]
  ELSE [isActive |-> FALSE, remainingTime |-> 0]

NextEVoting ==
  \/ \E s \in EVotingSenders :
        candidatesCount < MaxCountCandidates /\ EVotingSystem_addCandidate(s)
          /\ UNCHANGED treeVars
  \/ \E s \in EVotingSenders, a \in EVotingVoters :
        EVotingSystem_registerVoter(s, a) /\ UNCHANGED treeVars
  \/ \E s \in EVotingSenders, d \in 0..1 :
        EVotingSystem_startVoting(s, d) /\ UNCHANGED treeVars
  \/ \E s \in EVotingSenders : EVotingSystem_endVoting(s) /\ UNCHANGED treeVars
  \/ \E s \in EVotingSenders, cid \in 0..MaxCountCandidates :
        EVotingSystem_vote(s, cid) /\ UNCHANGED treeVars
  \/ Tick /\ UNCHANGED treeVars

SpecEVoting == InitEVoting /\ [][NextEVoting]_vars

\* ------------------------------------------- the admin of both contracts
\* The contract that was deployed: EVotingSystem keeps a voter record for
\* every account, ZKVotingSystem one per registered address.
ZKVotingSystemDeployed == "registered" \in DOMAIN voters[CHOOSE a \in DOMAIN voters : TRUE]

EVotingSystemDeployed == "isRegistered" \in DOMAIN voters[CHOOSE a \in DOMAIN voters : TRUE]

\* Either contract right after its constructor; the deployer is `admin`.
InitAdmin == InitVote \/ InitEVoting

\* The transactions of the deployed contract; a ZK vote presents the last
\* root and a proof the verifier accepts.
NextAdmin ==
  \/ /\ ZKVotingSystemDeployed
     /\ \/ \E s \in Senders :
             candidatesCount < MaxCandidates /\ addCandidate(s)
               /\ UNCHANGED treeVars
        \/ \E s \in Senders, a \in VoterAddresses, c \in Credentials :
             registerVoter(s, a, uniqueHashOf(c), commitmentOf(c))
               /\ UNCHANGED treeVars
        \/ \E s \in Senders, a \in VoterAddresses :
             unregisterVoter(s, a) /\ UNCHANGED treeVars
        \/ \E s \in Senders, d \in 0..1 : startVoting(s, d) /\ UNCHANGED treeVars
        \/ \E s \in Senders : endVoting(s) /\ UNCHANGED treeVars
        \/ \E cid \in 1..MaxCandidates, n \in NullifierInputs :
             vote(cid, n, getLastRoot(zkTree), TRUE) /\ UNCHANGED treeVars
  \/ /\ EVotingSystemDeployed
     /\ \/ \E s \in EVotingSenders :
             candidatesCount < MaxCountCandidates /\ EVotingSystem_addCandidate(s)
               /\ UNCHANGED treeVars
        \/ \E s \in EVotingSenders, a \in EVotingVoters :
             EVotingSystem_registerVoter(s, a) /\ UNCHANGED treeVars
        \/ \E s \in EVotingSenders, d \in 0..1 :
             EVotingSystem_startVoting(s, d) /\ UNCHANGED treeVars
        \/ \E s \in EVotingSenders : EVotingSystem_endVoting(s) /\ UNCHANGED treeVars
        \/ \E s \in EVotingSenders, cid \in 0..MaxCountCandidates :
             EVotingSystem_vote(s, cid) /\ UNCHANGED treeVars
  \/ Tick /\ UNCHANGED treeVars

SpecAdmin == InitAdmin /\ [][NextAdmin]_vars

\* ------------------------------------------------- initializeMerkleTree
\* Array.prototype.sort with (a, b) => a.leafIndex - b.leafIndex: stable,
\* ascending in leafIndex.
RECURSIVE insertSorted(_, _)
insertSorted(sorted, event) ==
  IF sorted = <<>> THEN <<event>>
  ELSE IF sorted[Len(sorted)].leafIndex - event.leafIndex <= 0
  THEN Append(sorted, event)
  ELSE Append(insertSorted(SubSeq(sorted, 1, Len(sorted) - 1), event),
              sorted[Len(sorted)])

RECURSIVE sortLoop(_, _)
sortLoop(sorted, rest) ==
  IF rest = <<>> THEN sorted
  ELSE sortLoop(insertSorted(sorted, Head(rest)), Tail(rest))

unsortedEvents(commitEvents) == commitEvents

sortedEvents(commitEvents) == sortLoop(<<>>, commitEvents)

\* for (const event of sortedEvents): insert formatForComparison(commitment);
\* an insert that throws ends the loop in the catch of eventsError.
RECURSIVE replayEvents(_, _)
replayEvents(t, evs) ==
  IF evs = <<>> THEN t
  ELSE LET commitment == formatForComparison(HexStr(Head(evs).commitment))
           r          == insert(t, commitment)
       IN  IF r.err # "" THEN t ELSE replayEvents(r.tree, Tail(evs))

\* The orders in which queryFilter may deliver the events of the log.
Deliveries(log) ==
  LET n == Len(log)
  IN  {[i \in 1..n |-> log[p[i]]] :
         p \in {q \in [1..n -> 1..n] : \A i, j \in 1..n : q[i] = q[j] => i = j}}

\* Up to `await treeInstance.initialize()`: a fresh tree replaces the
\* singleton; when the hasher cannot be built the call throws.
MirrorStart(ok) ==
  /\ mirror.pc \in {"idle", "done"}
  /\ IF ok
     THEN /\ treeInstance' = initialize(NewMerkleTree(Levels))
          /\ mirror' = [NoMirror EXCEPT !.pc = "getLastRoot",
                                        !.contractRoot = mirror.contractRoot,
                                        !.before = treeInstance]
     ELSE /\ treeInstance' = NewMerkleTree(Levels)
          /\ mirror' = [NoMirror EXCEPT !.pc = "done", !.outcome = "threw",
                                        !.contractRoot = mirror.contractRoot,
                                        !.before = treeInstance]
  /\ UNCHANGED ret

\* `await contract.getLastRoot()`; a failed call is caught as rootError and
\* the tree is returned.
MirrorGetLastRoot(ok) ==
  /\ mirror.pc = "getLastRoot"
  /\ IF ok
     THEN LET lastRoot == HexStr(toHex(getLastRoot(zkTree)))
          IN  mirror' = [mirror EXCEPT !.pc = "queryFilter",
                                       !.lastRoot = lastRoot,
                                       !.contractRoot = formatForComparison(lastRoot)]
     ELSE mirror' = [mirror EXCEPT !.pc = "done", !.outcome = "returned",
                                   !.caught = "rootError"]
  /\ UNCHANGED <<treeInstance, ret>>

\* `await contract.queryFilter(...)` and the rest of the call: sort, replay,
\* compare the roots, return the tree. A failed query is caught as
\* eventsError and the tree is returned.
MirrorQueryFilter(ok, commitEvents) ==
  /\ mirror.pc = "queryFilter"
  /\ IF ok
     THEN LET cleared == IF Len(commitEvents) > 0
                         THEN [treeInstance EXCEPT !.leaves = <<>>]
                         ELSE treeInstance
              rebuilt == replayEvents(cleared, sortedEvents(commitEvents))
              calculatedRoot == formatForComparison(DecStr(toString(rebuilt.root)))
              contractRoot   == formatForComparison(mirror.lastRoot)
          IN  /\ treeInstance' = rebuilt
              /\ mirror' = [mirror EXCEPT
                              !.pc = "done", !.outcome = "returned",
                              !.fetched = TRUE, !.commitEvents = commitEvents,
                              !.warned = (Len(commitEvents) > 0
                                            /\ calculatedRoot # contractRoot)]
     ELSE /\ mirror' = [mirror EXCEPT !.pc = "done", !.outcome = "returned",
                                      !.caught = "eventsError"]
          /\ UNCHANGED treeInstance
  /\ UNCHANGED ret

\* Credentials registered while the mirror runs.
MirrorCredentials == Credentials \cup {[nullifier |-> 13, secret |-> 23]}

InitMirror ==
  /\ InitContract
  /\ treeInstance = NewMerkleTree(Levels)
  /\ ret = NoRet
  /\ mirror = NoMirror

NextMirror ==
  \/ \E ok \in BOOLEAN : MirrorStart(ok) /\ UNCHANGED contractVars
  \/ \E ok \in BOOLEAN : MirrorGetLastRoot(ok) /\ UNCHANGED contractVars
  \/ \E ok \in BOOLEAN, evs \in Deliveries(events.Commit) :
        MirrorQueryFilter(ok, evs) /\ UNCHANGED contractVars
  \/ \E s \in Senders, a \in VoterAddresses, c \in MirrorCredentials :
        registerVoter(s, a, uniqueHashOf(c), commitmentOf(c)) /\ UNCHANGED treeVars
  \/ \E s \in Senders, a \in VoterAddresses :
        unregisterVoter(s, a) /\ UNCHANGED treeVars

SpecMirror == InitMirror /\ [][NextMirror]_vars

\* ------------------------------------ the mirror in use during a rebuild
\* `let treeInstance = null` until initializeMerkleTree assigns it.
treeInstanceIsNull == mirror.pc = "idle"

\* localStorage has no voterSecrets (or no commitment in them).
NoSecrets == DecStr(<<>>)

\* leaves.findIndex(leaf => formatForComparison(leaf.toString()) === formatted)
leafFindIndex(leaves, formatted) ==
  LET found == {i \in 1..Len(leaves) :
                  formatForComparison(DecStr(toString(leaves[i]))) = formatted}
  IN  IF found = {} THEN 0 - 1
      ELSE (CHOOSE i \in found : \A j \in found : i <= j) - 1

\* registerCommitment(commitment): the tree after the call and what the
\* call returns (the voterLeafIndex item of localStorage is not modelled).
registerCommitment(isNull, t, commitment) ==
  IF isNull
  THEN [tree |-> t, index |-> Null,
        err |-> "Merkle tree not initialized. Call initializeMerkleTree first."]
  ELSE LET formattedCommitment == formatForComparison(commitment)
           existingIndex       == leafFindIndex(t.leaves, formattedCommitment)
       IN  IF existingIndex # 0 - 1
           THEN [tree |-> t, index |-> existingIndex, err |-> ""]
           ELSE insert(t, formattedCommitment)

\* `proof.root = contractRoot` when localStorage holds a contractRoot.
overrideRoot(r, contractRoot) ==
  IF r.err # "" THEN r
  ELSE [err   |-> "",
        proof |-> [root         |-> IF contractRoot # <<>> THEN contractRoot
                                    ELSE r.proof.root,
                   pathElements |-> r.proof.pathElements,
                   pathIndices  |-> r.proof.pathIndices,
                   leaf         |-> r.proof.leaf]]

\* generateMerkleProof(leafIndex) with the voterSecrets commitment and the
\* contractRoot item read from localStorage.
generateMerkleProof(isNull, t, leafIndex, voterCommitment, contractRoot) ==
  IF isNull
  THEN [err |-> "Merkle tree not initialized. Call initializeMerkleTree first.",
        proof |-> NoProof]
  ELSE IF leafIndex < 0
  THEN [err |-> "Invalid leaf index", proof |-> NoProof]
  ELSE LET hasCommitment    == voterCommitment.digits # <<>>
           commitmentToFind == IF hasCommitment
                               THEN formatForComparison(voterCommitment)
                               ELSE <<>>
           mismatch ==
             \/ leafIndex >= Len(t.leaves)
             \/ /\ hasCommitment
                /\ formatForComparison(DecStr(toString(t.leaves[leafIndex + 1])))
                     # commitmentToFind
           foundIndex == leafFindIndex(t.leaves, commitmentToFind)
       IN  IF ~mismatch
           THEN overrideRoot(generateProof(t, leafIndex), contractRoot)
           ELSE IF ~hasCommitment
           THEN [err |-> "Leaf index out of bounds and no commitment found in localStorage",
                 proof |-> NoProof]
           ELSE IF foundIndex = 0 - 1
           THEN [err |-> "Commitment not found in the Merkle tree",
                 proof |-> NoProof]
           ELSE overrideRoot(generateProof(t, foundIndex), contractRoot)

MirrorRegisterCommitment(commitment) ==
  /\ LET r == registerCommitment(treeInstanceIsNull, treeInstance, commitment)
     IN  /\ treeInstance' = r.tree
         /\ ret' = [NoRet EXCEPT !.op = "registerCommitment",
                                 !.err = r.err, !.index = r.index]
  /\ UNCHANGED mirror

MirrorGenerateMerkleProof(leafIndex, voterCommitment) ==
  /\ LET r == generateMerkleProof(treeInstanceIsNull, treeInstance, leafIndex,
                                  voterCommitment, mirror.contractRoot)
     IN  ret' = [NoRet EXCEPT !.op = "generateMerkleProof", !.arg = leafIndex,
                             !.err = r.err, !.proof = r.proof]
  /\ UNCHANGED <<treeInstance, mirror>>

\* Commitments as the client holds them: decimal strings.
CommitmentInputs == {DecStr(toString(commitmentOf(c))) : c \in Credentials}

\* The rebuild, the contract registrations it replays, and the calls the
\* pages make on the mirror between its await points.
NextRebuild ==
  \/ \E ok \in BOOLEAN : MirrorStart(ok) /\ UNCHANGED contractVars
  \/ \E ok \in BOOLEAN : MirrorGetLastRoot(ok) /\ UNCHANGED contractVars
  \/ \E ok \in BOOLEAN, evs \in Deliveries(events.Commit) :
        MirrorQueryFilter(ok, evs) /\ UNCHANGED contractVars
  \/ \E a \in VoterAddresses, c \in Credentials :
        registerVoter(admin, a, uniqueHashOf(c), commitmentOf(c))
          /\ UNCHANGED treeVars
  \/ \E commitment \in CommitmentInputs :
        MirrorRegisterCommitment(commitment) /\ UNCHANGED contractVars
  \/ \E voterCommitment \in CommitmentInputs \cup {NoSecrets} :
        MirrorGenerateMerkleProof(0, voterCommitment) /\ UNCHANGED contractVars

SpecRebuild == InitMirror /\ [][NextRebuild]_vars

\* Leaves handed to insert, as decimal strings.
LeafInputs == {toString(0), toString(1)}

\* Insertions are explored up to one past the capacity 2^levels.
MaxLeaves == Pow2(Levels) + 1

InitTree ==
  /\ treeInstance = NewMerkleTree(Levels)
  /\ ret = NoRet
  /\ mirror = NoMirror
  /\ InitContract

TreeInitialize ==
  /\ ~treeInstance.initialized
  /\ treeInstance' = initialize(treeInstance)
  /\ ret' = [NoRet EXCEPT !.op = "initialize"]
  /\ UNCHANGED mirror

TreeInsert(leaf) ==
  /\ Len(treeInstance.leaves) < MaxLeaves
  /\ LET r == insert(treeInstance, leaf)
     IN  /\ treeInstance' = r.tree
         /\ ret' = [NoRet EXCEPT !.op = "insert", !.arg = BigInt(leaf),
                                 !.err = r.err, !.index = r.index]
  /\ UNCHANGED mirror

TreeGenerateProof(index) ==
  /\ LET r == generateProof(treeInstance, index)
     IN  ret' = [NoRet EXCEPT !.op = "generateProof", !.arg = index,
                             !.err = r.err, !.proof = r.proof]
  /\ UNCHANGED <<treeInstance, mirror>>

\* array[i] of a JS array: undefined past its end.
elementAt(array, i) == IF i + 1 \in DOMAIN array THEN array[i + 1] ELSE Null

\* generateMerkleProof(commitment, tree, leafIndex) of zkProofs.js: at every
\* level the sibling is read from tree.leaves, or from tree.zeros when the
\* sibling index is past the leaves. The commitment is not read.
RECURSIVE zkProofs_pathFrom(_, _, _)
zkProofs_pathFrom(i, tree, index) ==
  IF i >= tree.levels THEN [pathElements |-> <<>>, pathIndices |-> <<>>]
  ELSE LET siblingIndex == IF index % 2 = 0 THEN index + 1 ELSE index - 1
           siblingValue == IF siblingIndex < Len(tree.leaves)
                           THEN elementAt(tree.leaves, siblingIndex)
                           ELSE elementAt(tree.zeros, i)
           rest         == zkProofs_pathFrom(i + 1, tree, index \div 2)
       IN  [pathElements |-> <<siblingValue>> \o rest.pathElements,
            pathIndices  |-> <<index % 2>> \o rest.pathIndices]

zkProofs_generateMerkleProof(commitment, tree, leafIndex) ==
  zkProofs_pathFrom(0, tree, leafIndex)

TreeZkProofsGenerateMerkleProof(leafIndex) ==
  /\ LET r == zkProofs_generateMerkleProof(
                 elementAt(treeInstance.leaves, leafIndex), treeInstance, leafIndex)
     IN  ret' = [NoRet EXCEPT !.op = "zkProofs.generateMerkleProof",
                             !.arg = leafIndex,
                             !.proof = [NoProof EXCEPT
                                          !.pathElements = r.pathElements,
                                          !.pathIndices = r.pathIndices]]
  /\ UNCHANGED <<treeInstance, mirror>>

NextTree ==
  \/ TreeInitialize /\ UNCHANGED contractVars
  \/ \E leaf \in LeafInputs : TreeInsert(leaf) /\ UNCHANGED contractVars
  \/ \E index \in 0..MaxLeaves : TreeGenerateProof(index) /\ UNCHANGED contractVars
  \/ \E leafIndex \in 0..MaxLeaves :
        TreeZkProofsGenerateMerkleProof(leafIndex) /\ UNCHANGED contractVars

SpecTree == InitTree /\ [][NextTree]_vars

\* The same tree grown by a bounded number of insertions.
NextGrow ==
  \/ TreeInitialize /\ UNCHANGED contractVars
  \/ \E leaf \in LeafInputs :
        Len(treeInstance.leaves) < MaxInserts /\ TreeInsert(leaf)
          /\ UNCHANGED contractVars
  \/ \E index \in (0 - 1)..MaxInserts :
        TreeGenerateProof(index) /\ UNCHANGED contractVars

SpecGrow == InitTree /\ [][NextGrow]_vars

\* ------------------------------------------------------ the hash helpers
\* Values handed to the hash helpers, some of them outside the field.
HashInputs == {0, 1, 2, ZERO_VALUE, FIELD_SIZE - 1, FIELD_SIZE, FIELD_SIZE + 1}

CallCalculateHash(left, right) ==
  /\ ret' = [NoRet EXCEPT !.op = "merkleTree.calculateHash",
                          !.arg = <<left, right>>,
                          !.value = calculateHash(left, right)]
  /\ UNCHANGED <<treeInstance, mirror>>

CallZkProofsCalculateHash(left, right) ==
  /\ ret' = [NoRet EXCEPT !.op = "zkProofs.calculateHash",
                          !.arg = <<left, right>>,
                          !.value = zkProofs_calculateHash(left, right)]
  /\ UNCHANGED <<treeInstance, mirror>>

CallWrapperCalculateHash(left, right) ==
  /\ ret' = [NoRet EXCEPT !.op = "circyomWrapper.calculateHash",
                          !.arg = <<left, right>>,
                          !.value = circyomWrapper_calculateHash(left, right)]
  /\ UNCHANGED <<treeInstance, mirror>>

\* calculateMerkleRootAndZKProof(nullifier, secret, merkleProof): what it
\* throws or returns, and whether the prover was called. fullProve hands the
\* result of groth16.fullProve through, or throws.
NoZKProof == [proverCalled |-> FALSE, nullifierHash |-> <<>>, root |-> <<>>]

calculateMerkleRootAndZKProofSwapped(merkleProof, proverResult) ==
  IF ~merkleProof.present \/ merkleProof.root = <<>>
  THEN [err |-> "Merkle proof is invalid or missing root", value |-> NoZKProof]
  ELSE IF proverResult.threw
  THEN [err   |-> "Error in fullProve",
        value |-> [NoZKProof EXCEPT !.proverCalled = TRUE]]
  ELSE IF Len(proverResult.publicSignals) # 2
  THEN [err   |-> "Proof generated invalid number of public signals",
        value |-> [NoZKProof EXCEPT !.proverCalled = TRUE]]
  ELSE [err   |-> "",
        value |-> [proverCalled  |-> TRUE,
                   nullifierHash |-> proverResult.publicSignals[2],
                   root          |-> proverResult.publicSignals[1]]]

calculateMerkleRootAndZKProof(merkleProof, proverResult) ==
  IF ~merkleProof.present \/ merkleProof.root = <<>>
  THEN [err |-> "Merkle proof is invalid or missing root", value |-> NoZKProof]
  ELSE IF proverResult.threw
  THEN [err   |-> "Error in fullProve",
        value |-> [NoZKProof EXCEPT !.proverCalled = TRUE]]
  ELSE IF Len(proverResult.publicSignals) # 2
  THEN [err   |-> "Proof generated invalid number of public signals",
        value |-> [NoZKProof EXCEPT !.proverCalled = TRUE]]
  ELSE [err   |-> "",
        value |-> [proverCalled  |-> TRUE,
                   nullifierHash |-> proverResult.publicSignals[1],
                   root          |-> proverResult.publicSignals[2]]]

\* Merkle proofs handed in: none, one without a root, one with a root.
MerkleProofInputs ==
  {[present |-> FALSE, root |-> <<>>], [present |-> TRUE, root |-> <<>>],
   [present |-> TRUE, root |-> toString(ZERO_VALUE)]}

\* What the prover may do: throw, or return some public signals.
ProverResults ==
  {[threw |-> TRUE, publicSignals |-> <<>>]} \cup
  {[threw |-> FALSE, publicSignals |-> sig] :
     sig \in {<<>>, <<toString(11)>>, <<toString(11), toString(ZERO_VALUE)>>,
              <<toString(11), toString(12)>>,
              <<toString(11), toString(12), toString(13)>>}}

CallCalculateMerkleRootAndZKProof(merkleProof, proverResult) ==
  /\ LET r == calculateMerkleRootAndZKProof(merkleProof, proverResult)
     IN  ret' = [NoRet EXCEPT !.op = "calculateMerkleRootAndZKProof",
                             !.arg = <<merkleProof, proverResult>>,
                             !.err = r.err, !.value = r.value]
  /\ UNCHANGED <<treeInstance, mirror>>

\* generateCommitment() of zkProofs.js; the two random field elements are
\* inputs.
generateCommitmentBothSecret(nullifier, secret) ==
  [nullifier     |-> toString(nullifier),
   secret        |-> toString(secret),
   commitment    |-> toString(zkProofs_calculateHash(nullifier, secret)),
   nullifierHash |-> toString(zkProofs_calculateHash(nullifier, secret))]

generateCommitment(nullifier, secret) ==
  [nullifier     |-> toString(nullifier),
   secret        |-> toString(secret),
   commitment    |-> toString(zkProofs_calculateHash(nullifier, secret)),
   nullifierHash |-> toString(zkProofs_calculateHash(nullifier, 0))]

\* generateRandomFieldElement(): values below the modulus.
FieldElementInputs == {0, 1, 2, ZERO_VALUE, FIELD_SIZE - 1}

CallGenerateCommitment(nullifier, secret) ==
  /\ ret' = [NoRet EXCEPT !.op = "generateCommitment",
                          !.value = generateCommitment(nullifier, secret)]
  /\ UNCHANGED <<treeInstance, mirror>>

\* Leaves outside the field handed to insert.
OutOfFieldLeaves == {toString(FIELD_SIZE), toString(FIELD_SIZE + 1)}

NextHash ==
  \/ TreeInitialize /\ UNCHANGED contractVars
  \/ \E leaf \in OutOfFieldLeaves :
        Len(treeInstance.leaves) < 1 /\ TreeInsert(leaf) /\ UNCHANGED contractVars
  \/ \E left \in HashInputs, right \in HashInputs :
        CallCalculateHash(left, right) /\ UNCHANGED contractVars
  \/ \E left \in HashInputs, right \in HashInputs :
        CallZkProofsCalculateHash(left, right) /\ UNCHANGED contractVars
  \/ \E left \in HashInputs, right \in HashInputs :
        CallWrapperCalculateHash(left, right) /\ UNCHANGED contractVars
  \/ \E merkleProof \in MerkleProofInputs, proverResult \in ProverResults :
        CallCalculateMerkleRootAndZKProof(merkleProof, proverResult)
          /\ UNCHANGED contractVars
  \/ \E nullifier \in FieldElementInputs, secret \in FieldElementInputs :
        CallGenerateCommitment(nullifier, secret) /\ UNCHANGED contractVars

SpecHash == InitTree /\ [][NextHash]_vars

\* ------------------------------------------------ waiting for the prover
\* A call that has not returned yet is recorded in ret by the await it stands
\* at, with its arguments.
AwaitFullProve == "await fullProve"

AwaitPromiseRace == "await Promise.race"

\* calculateMerkleRootAndZKProof up to `await fullProve(...)`; fullProve in
\* turn stands at `await snarkjsModule.groth16.fullProve(...)`. Neither
\* arms a timer.
ClientStartProof(nullifier, secret, merkleProof) ==
  /\ ret.op \notin {AwaitFullProve, AwaitPromiseRace}
  /\ IF ~merkleProof.present \/ merkleProof.root = <<>>
     THEN ret' = [NoRet EXCEPT
                    !.op = "calculateMerkleRootAndZKProof",
                    !.arg = <<nullifier, secret, merkleProof>>,
                    !.err = "Merkle proof is invalid or missing root",
                    !.value = NoZKProof]
     ELSE ret' = [NoRet EXCEPT !.op = AwaitFullProve,
                               !.arg = <<nullifier, secret, merkleProof>>,
                               !.value = NoZKProof]
  /\ UNCHANGED <<treeInstance, mirror>>

\* The prover settles its promise and the call runs to its end.
ClientProverAnswers(proverResult) ==
  /\ ret.op = AwaitFullProve
  /\ LET r == calculateMerkleRootAndZKProof(ret.arg[3], proverResult)
     IN  ret' = [ret EXCEPT !.op = "calculateMerkleRootAndZKProof",
                            !.err = r.err, !.value = r.value]
  /\ UNCHANGED <<treeInstance, mirror>>

\* processVoter of the flow script: groth16.fullProve raced against a
\* setTimeout of 300000 ms.
ScriptStartProof(nullifier, secret, merkleProof) ==
  /\ ret.op \notin {AwaitFullProve, AwaitPromiseRace}
  /\ ret' = [NoRet EXCEPT !.op = AwaitPromiseRace,
                          !.arg = <<nullifier, secret, merkleProof>>,
                          !.value = [NoZKProof EXCEPT !.proverCalled = TRUE]]
  /\ UNCHANGED <<treeInstance, mirror>>

ScriptProverAnswers(proverResult) ==
  /\ ret.op = AwaitPromiseRace
  /\ ret' = [ret EXCEPT !.op = "processVoter",
                        !.err = IF proverResult.threw
                                THEN "Error in fullProve" ELSE ""]
  /\ UNCHANGED <<treeInstance, mirror>>

\* The timer of the race fires first.
ScriptTimeout ==
  /\ ret.op = AwaitPromiseRace
  /\ ret' = [ret EXCEPT !.op = "processVoter",
                        !.err = "ZK proof generation timed out"]
  /\ UNCHANGED <<treeInstance, mirror>>

\* No proof was asked for yet.
InitProve ==
  /\ treeInstance = NewMerkleTree(Levels)
  /\ ret = [NoRet EXCEPT !.arg = <<>>, !.value = NoZKProof]
  /\ mirror = NoMirror
  /\ InitContract

NextProve ==
  \/ \E nullifier, secret \in FieldElementInputs, merkleProof \in MerkleProofInputs :
        ClientStartProof(nullifier, secret, merkleProof) /\ UNCHANGED contractVars
  \/ \E proverResult \in ProverResults :
        ClientProverAnswers(proverResult) /\ UNCHANGED contractVars
  \/ \E nullifier, secret \in FieldElementInputs, merkleProof \in MerkleProofInputs :
        ScriptStartProof(nullifier, secret, merkleProof) /\ UNCHANGED contractVars
  \/ \E proverResult \in ProverResults :
        ScriptProverAnswers(proverResult) /\ UNCHANGED contractVars
  \/ ScriptTimeout /\ UNCHANGED contractVars

\* A started call runs on, and an armed timer fires unless the race was
\* settled before; the prover is under no obligation to answer.
SpecProve ==
  /\ InitProve
  /\ [][NextProve]_vars
  /\ WF_vars(ScriptTimeout /\ UNCHANGED contractVars)

\* ------------------------------------------------ ZKVotingForm.castVote
\* The call is recorded in ret: the await it stands at, its arguments and
\* locals, what the contract reported to it and whether it sent the vote.
NoVoterSecret ==
  [nullifier |-> <<>>, secret |-> <<>>, commitment |-> <<>>, nullifierHash |-> <<>>]

\* The secret the form holds: none, or what generateCommitment produced.
VoterSecretInputs ==
  {generateCommitment(c.nullifier, c.secret) : c \in Credentials} \cup {NoVoterSecret}

\* localStorage.getItem('voterLeafIndex'): null or a decimal string.
NoLeafIndex == <<>>

LeafIndexInputs == {NoLeafIndex, toString(0), toString(1)}

NoCastVote ==
  [op |-> "idle", selectedCandidate |-> 0, voterSecret |-> NoVoterSecret,
   merkleProof |-> NoProof, rebuilt |-> FALSE, proof |-> NoZKProof,
   isNullifierUsed |-> "unread", isActive |-> "unread", submitted |-> FALSE,
   message |-> ""]

\* formatHexValue(value) for a decimal string: "0x" and the hex digits, with
\* a leading zero digit when their number is odd.
formatHexValue(value) ==
  LET digits == toHex(BigInt(value))
  IN  HexStr(IF Len(digits) % 2 # 0 THEN <<0>> \o digits ELSE digits)

\* setMessage(...); setLoading(false); return
castVoteReturns(message) == [ret EXCEPT !.op = "returned", !.message = message]

\* `await initializeMerkleTree(contract)` has settled.
initializeMerkleTreeSettled == mirror.pc = "done"

\* castVote up to `await contract.getLastRoot()`.
CastVoteStart(selectedCandidate, voterSecret) ==
  /\ ret.op = "idle"
  /\ ret' = IF selectedCandidate = 0
            THEN [NoCastVote EXCEPT !.op = "returned",
                                    !.message = "Please select a candidate"]
            ELSE IF voterSecret = NoVoterSecret
            THEN [NoCastVote EXCEPT !.op = "returned",
                                    !.selectedCandidate = selectedCandidate,
                                    !.message = "Please provide your voting secret"]
            ELSE [NoCastVote EXCEPT !.op = "await getLastRoot",
                                    !.selectedCandidate = selectedCandidate,
                                    !.voterSecret = voterSecret]
  /\ UNCHANGED <<treeInstance, mirror>>

\* getLastRoot answers (or throws into the outer catch); the call goes on to
\* `await initializeMerkleTree(contract)`.
CastVoteGetLastRoot(ok) ==
  /\ ret.op = "await getLastRoot"
  /\ ret' = IF ok THEN [ret EXCEPT !.op = "await initializeMerkleTree"]
            ELSE castVoteReturns("Error casting vote")
  /\ UNCHANGED <<treeInstance, mirror>>

\* generateMerkleProof(leafIndex) returned r (or threw); on a path the call
\* enters processZkProofAndVote and calculateMerkleRootAndZKProof up to
\* `await fullProve`.
castVoteWithPath(r, thrown, lengthChecked) ==
  IF r.err # "" THEN castVoteReturns(thrown)
  ELSE IF lengthChecked /\ Len(r.proof.pathElements) = 0
  THEN castVoteReturns("Failed to generate valid Merkle proof")
  ELSE IF r.proof.root = <<>>
  THEN [ret EXCEPT !.op = "returned", !.merkleProof = r.proof,
                   !.rebuilt = initializeMerkleTreeSettled,
                   !.message = "Error processing vote"]
  ELSE [ret EXCEPT !.op = AwaitFullProve, !.merkleProof = r.proof,
                   !.rebuilt = initializeMerkleTreeSettled]

\* initializeMerkleTree has settled; the leaf index is read from
\* localStorage and, when it is there, the Merkle path is generated.
CastVoteAfterInitialize(leafIndex, voterCommitment) ==
  /\ ret.op = "await initializeMerkleTree"
  /\ initializeMerkleTreeSettled
  /\ ret' = IF mirror.outcome = "threw" THEN castVoteReturns("Error casting vote")
            ELSE IF leafIndex = NoLeafIndex
            THEN (IF ret.voterSecret.commitment # <<>>
                  THEN [ret EXCEPT !.op = "await queryFilter"]
                  ELSE castVoteReturns("Cannot find your commitment in the Merkle tree"))
            ELSE castVoteWithPath(
                   generateMerkleProof(treeInstanceIsNull, treeInstance,
                                       BigInt(leafIndex), voterCommitment,
                                       mirror.contractRoot),
                   "Error generating Merkle proof", TRUE)
  /\ UNCHANGED <<treeInstance, mirror>>

\* The first event of the log with the voter's commitment, 0 if none.
foundEvent(commitEvents, commitment) ==
  LET hits == {k \in 1..Len(commitEvents) :
                 formatForComparison(HexStr(commitEvents[k].commitment))
                   = formatForComparison(DecStr(commitment))}
  IN  IF hits = {} THEN 0 ELSE CHOOSE k \in hits : \A j \in hits : k <= j

\* The event query of castVote answers: the path is generated for the index
\* of the event that carries the commitment.
CastVoteQueryFilter(ok, commitEvents, voterCommitment) ==
  /\ ret.op = "await queryFilter"
  /\ LET k == foundEvent(commitEvents, ret.voterSecret.commitment)
     IN  ret' = IF ~ok
                THEN castVoteReturns("Cannot find your commitment in the Merkle tree")
                ELSE IF k = 0
                THEN castVoteReturns("Your commitment was not found in the Merkle tree")
                ELSE castVoteWithPath(
                       generateMerkleProof(treeInstanceIsNull, treeInstance,
                                           commitEvents[k].leafIndex,
                                           voterCommitment, mirror.contractRoot),
                       "Cannot find your commitment in the Merkle tree", FALSE)
  /\ UNCHANGED <<treeInstance, mirror>>

\* What the prover may answer for the secret and the path it was given.
CastVoteProverResults ==
  {[threw |-> TRUE, publicSignals |-> <<>>],
   [threw |-> FALSE,
    publicSignals |-> <<ret.voterSecret.nullifierHash, ret.merkleProof.root>>]}

\* fullProve settles; calculateMerkleRootAndZKProof returns the proof or
\* throws into the catch of processZkProofAndVote.
CastVoteFullProve(proverResult) ==
  /\ ret.op = AwaitFullProve
  /\ LET r == calculateMerkleRootAndZKProof(
                 [present |-> TRUE, root |-> ret.merkleProof.root], proverResult)
     IN  ret' = IF r.err # "" THEN castVoteReturns("Error processing vote")
                ELSE [ret EXCEPT !.op = "await nullifiers", !.proof = r.value]
  /\ UNCHANGED <<treeInstance, mirror>>

\* contract.nullifiers(formattedNullifierHash) answers.
CastVoteNullifiersIgnored(ok) ==
  /\ ret.op = "await nullifiers"
  /\ LET isNullifierUsed ==
           hexToBigInt(formatHexValue(ret.proof.nullifierHash).digits) \in nullifiers
     IN  ret' = IF ~ok THEN castVoteReturns("Error processing vote")
                ELSE [ret EXCEPT !.op = "await getVotingStatus",
                                 !.isNullifierUsed =
                                    IF isNullifierUsed THEN "true" ELSE "false"]
  /\ UNCHANGED <<treeInstance, mirror>>

CastVoteNullifiers(ok) ==
  /\ ret.op = "await nullifiers"
  /\ LET isNullifierUsed ==
           hexToBigInt(formatHexValue(ret.proof.nullifierHash).digits) \in nullifiers
     IN  ret' = IF ~ok THEN castVoteReturns("Error processing vote")
                ELSE IF isNullifierUsed
                THEN [ret EXCEPT !.op = "returned", !.isNullifierUsed = "true",
                                 !.message = "You have already voted with this secret"]
                ELSE [ret EXCEPT !.op = "await getVotingStatus",
                                 !.isNullifierUsed = "false"]
  /\ UNCHANGED <<treeInstance, mirror>>

\* contract.getVotingStatus() answers.
CastVoteGetVotingStatus(ok) ==
  /\ ret.op = "await getVotingStatus"
  /\ ret' = IF ~ok THEN castVoteReturns("Error processing vote")
            ELSE IF ~getVotingStatus.isActive
            THEN [ret EXCEPT !.op = "returned", !.isActive = "false",
                             !.message = "Voting is currently not active"]
            ELSE [ret EXCEPT !.op = "await isKnownRoot", !.isActive = "true"]
  /\ UNCHANGED <<treeInstance, mirror>>

\* contract.isKnownRoot(formattedCalcRoot) answers or throws: an unknown
\* root only sets a warning, an error is swallowed.
CastVoteIsKnownRoot(ok) ==
  /\ ret.op = "await isKnownRoot"
  /\ ret' = [ret EXCEPT
               !.op = "await getAddress",
               !.message =
                 IF ok /\ ~isKnownRoot(zkTree,
                             hexToBigInt(formatHexValue(ret.proof.root).digits))
                 THEN "The calculated Merkle root is not recognized by the contract"
                 ELSE ""]
  /\ UNCHANGED <<treeInstance, mirror>>

\* The sender address for the transaction log answers or throws; either way
\* the call goes on to contract.vote.
CastVoteGetAddress ==
  /\ ret.op = "await getAddress"
  /\ ret' = [ret EXCEPT !.op = "await vote"]
  /\ UNCHANGED <<treeInstance, mirror>>

\* contract.vote(...) is sent and mined (tx.wait), or the wallet refuses to
\* send it.
CastVoteSubmit(sent, proofValid) ==
  /\ ret.op = "await vote"
  /\ IF sent
     THEN /\ vote(ret.selectedCandidate,
                  hexToBigInt(formatHexValue(ret.proof.nullifierHash).digits),
                  hexToBigInt(formatHexValue(ret.proof.root).digits), proofValid)
          /\ ret' = [ret EXCEPT
                       !.op = "returned", !.submitted = TRUE,
                       !.message = IF lastVote'.err = ""
                                   THEN "Your vote has been successfully cast"
                                   ELSE "Error processing vote"]
     ELSE /\ ret' = castVoteReturns("Error processing vote")
          /\ UNCHANGED contractVars
  /\ UNCHANGED <<treeInstance, mirror>>

InitCastVote ==
  /\ InitContract
  /\ treeInstance = NewMerkleTree(Levels)
  /\ mirror = NoMirror
  /\ ret = NoCastVote

\* The candidates on the ballot of the form; 0 stands for no selection.
CastVoteCandidateIds == {1}

\* castVote and the rebuild it awaits. The admin sets the election up before
\* the voter presses the button; while the call runs the admin may end the
\* voting, time passes, and a second tab with the same secrets may vote.
NextCastVote ==
  \/ \E selectedCandidate \in {0} \cup CastVoteCandidateIds, voterSecret \in VoterSecretInputs :
        CastVoteStart(selectedCandidate, voterSecret) /\ UNCHANGED contractVars
  \/ \E ok \in BOOLEAN : CastVoteGetLastRoot(ok) /\ UNCHANGED contractVars
  \/ \E ok \in BOOLEAN :
        ret.op = "await initializeMerkleTree" /\ mirror.pc = "idle"
          /\ MirrorStart(ok) /\ UNCHANGED contractVars
  \/ \E ok \in BOOLEAN : MirrorGetLastRoot(ok) /\ UNCHANGED contractVars
  \/ \E ok \in BOOLEAN :
        MirrorQueryFilter(ok, events.Commit) /\ UNCHANGED contractVars
  \/ \E leafIndex \in LeafIndexInputs,
        voterCommitment \in {DecStr(ret.voterSecret.commitment), NoSecrets} :
        CastVoteAfterInitialize(leafIndex, voterCommitment) /\ UNCHANGED contractVars
  \/ \E ok \in BOOLEAN,
        voterCommitment \in {DecStr(ret.voterSecret.commitment), NoSecrets} :
        CastVoteQueryFilter(ok, events.Commit, voterCommitment)
          /\ UNCHANGED contractVars
  \/ \E proverResult \in CastVoteProverResults :
        CastVoteFullProve(proverResult) /\ UNCHANGED contractVars
  \/ \E ok \in BOOLEAN : CastVoteNullifiers(ok) /\ UNCHANGED contractVars
  \/ \E ok \in BOOLEAN : CastVoteGetVotingStatus(ok) /\ UNCHANGED contractVars
  \/ \E ok \in BOOLEAN : CastVoteIsKnownRoot(ok) /\ UNCHANGED contractVars
  \/ CastVoteGetAddress /\ UNCHANGED contractVars
  \/ \E sent \in BOOLEAN, proofValid \in BOOLEAN : CastVoteSubmit(sent, proofValid)
  \/ ret.op = "idle" /\ candidatesCount < Cardinality(CastVoteCandidateIds)
       /\ addCandidate(admin) /\ UNCHANGED treeVars
  \/ \E a \in VoterAddresses, c \in Credentials :
        ret.op = "idle" /\ registerVoter(admin, a, uniqueHashOf(c), commitmentOf(c))
          /\ UNCHANGED treeVars
  \/ ret.op = "idle" /\ startVoting(admin, 1) /\ UNCHANGED treeVars
  \/ endVoting(admin) /\ UNCHANGED treeVars
  \/ \E cid \in CastVoteCandidateIds, n \in NullifierInputs :
        vote(cid, n, getLastRoot(zkTree), TRUE) /\ UNCHANGED treeVars
  \/ Tick /\ UNCHANGED treeVars

SpecCastVote == InitCastVote /\ [][NextCastVote]_vars

\* ------------------------------------------------------------ properties
\* From-scratch root of the leaves in the tree, as calculateMerkleRootAndPath
\* returns it.
scratchRoot(t) == calculateMerkleRootAndPath(t.levels, t.leaves, NoElement).root

\* C1: after any sequence of inserts (at most 2^levels leaves) the root field
\* equals the from-scratch Merkle root over the same leaves.
C1_InsertRootEqualsScratchRoot ==
  (treeInstance.initialized /\ Len(treeInstance.leaves) <= Pow2(Levels))
    => toString(treeInstance.root) = scratchRoot(treeInstance)

\* C2: for every inserted leaf, generateProof(index) returns a path of
\* `levels` siblings and bits that recombines with the leaf to the root
\* returned with the proof, the Merkle root of all leaves inserted so far.
C2_ProofRecombinesToRoot ==
  (/\ ret.op = "generateProof"
   /\ treeInstance.initialized
   /\ ret.arg < Len(treeInstance.leaves)
   /\ Len(treeInstance.leaves) <= Pow2(Levels))
    => /\ ret.err = ""
       /\ Len(ret.proof.pathElements) = Levels
       /\ Len(ret.proof.pathIndices) = Levels
       /\ toString(checkMerkleProof(0, Levels, ret.proof.pathElements,
                                    ret.proof.pathIndices, BigInt(ret.proof.leaf)))
            = ret.proof.root
       /\ ret.proof.root = scratchRoot(treeInstance)

\* C9: an insert into a tree that already holds 2^levels leaves fails and
\* leaves the tree unchanged.
C9_InsertIntoFullTreeFails ==
  [][(/\ treeInstance.initialized
      /\ Len(treeInstance.leaves) = Pow2(Levels)
      /\ ret'.op = "insert")
       => (ret'.err # "" /\ treeInstance' = treeInstance)]_vars

\* C12: an initialized tree with no insertion has root zeros[levels], and the
\* from-scratch computation over the empty leaf list returns the same value.
C12_EmptyRootIsTopZero ==
  (treeInstance.initialized /\ Len(treeInstance.leaves) = 0)
    => /\ treeInstance.root = generateZeros(Levels)[Levels + 1]
       /\ calculateMerkleRootAndPath(Levels, <<>>, NoElement).err = ""
       /\ calculateMerkleRootAndPath(Levels, <<>>, NoElement).root
            = toString(generateZeros(Levels)[Levels + 1])

\* initialize() has just returned and nothing was inserted.
C12_Witness ==
  /\ ret.op = "initialize"
  /\ treeInstance.initialized
  /\ Len(treeInstance.leaves) = 0

\* C13: generateZeros(levels) has levels + 1 values, the first is the seed and
\* each further one is the hash of its predecessor with itself; the tree and
\* the from-scratch computation use the same ladder, and the zeros of a tree
\* never change once it is initialized.
C13_ZeroLadder ==
  /\ [](treeInstance.initialized
          => /\ Len(treeInstance.zeros) = Levels + 1
             /\ treeInstance.zeros[1] = ZERO_VALUE
             /\ \A i \in 1..Levels :
                  treeInstance.zeros[i + 1]
                    = calculateHash(treeInstance.zeros[i], treeInstance.zeros[i])
             /\ treeInstance.zeros = generateZeros(Levels))
  /\ [][treeInstance.initialized
          => treeInstance'.zeros = treeInstance.zeros]_vars

\* An initialized tree into which leaves were inserted.
C13_Witness ==
  /\ treeInstance.initialized
  /\ Len(treeInstance.leaves) >= 2
  /\ ret.op = "insert"

\* The calls of the three copies of calculateHash.
HashCalls ==
  {"merkleTree.calculateHash", "zkProofs.calculateHash",
   "circyomWrapper.calculateHash"}

\* C14: calculateHash(left, right) is the first component of the second
\* permutation, applied to ((R + right) mod P, C) where (R, C) is the
\* permutation of (left, 0); the three copies return the same value.
C14_TwoStepSponge ==
  ret.op \in HashCalls
    => LET left  == ret.arg[1]
           right == ret.arg[2]
           first == mimcHash(left, 0, 0)
       IN  /\ ret.value
                = mimcHash((first.xL + right) % FIELD_SIZE, first.xR, 0).xL
           /\ ret.value = calculateHash(left, right)
           /\ ret.value = zkProofs_calculateHash(left, right)
           /\ ret.value = circyomWrapper_calculateHash(left, right)

\* The copy of zkProofs.js has hashed two different field elements.
C14_Witness ==
  /\ ret.op = "zkProofs.calculateHash"
  /\ ret.arg = <<1, ZERO_VALUE>>
  /\ ret.value \in 0..(FIELD_SIZE - 1)

\* C15: calculateHash and MerkleTree.insert reject a value greater than or
\* equal to the field modulus with an error and compute nothing from it.
C15_OutOfFieldRejected ==
  /\ ret.op \in HashCalls /\ (\E i \in 1..2 : ret.arg[i] >= FIELD_SIZE)
       => ret.err # "" /\ ret.value = Null
  /\ ret.op = "insert" /\ ret.arg >= FIELD_SIZE
       => ret.err # "" /\ Len(treeInstance.leaves) = 0

\* C16: for every index insert has returned, generateProof(index) returns
\* `levels` path elements and `levels` path indices, and path index l is bit
\* l of the index.
C16_PathIndicesAreBitsOfIndex ==
  (ret.op = "generateProof" /\ treeInstance.initialized
     /\ ret.arg < Len(treeInstance.leaves))
    => /\ ret.err = ""
       /\ Len(ret.proof.pathElements) = Levels
       /\ Len(ret.proof.pathIndices) = Levels
       /\ \A l \in 0..(Levels - 1) :
            ret.proof.pathIndices[l + 1] = (ret.arg \div Pow2(l)) % 2

C18_IndicesCountUpLeavesStay ==
  /\ [][(ret'.op = "insert" /\ treeInstance.initialized)
         => (/\ ret'.err = ""
             /\ ret'.index = Len(treeInstance.leaves)
             /\ Len(treeInstance'.leaves) = Len(treeInstance.leaves) + 1
             /\ treeInstance'.leaves[ret'.index + 1] = ret'.arg)]_vars
  /\ [][/\ Len(treeInstance'.leaves) >= Len(treeInstance.leaves)
        /\ \A i \in 1..Len(treeInstance.leaves) :
             treeInstance'.leaves[i] = treeInstance.leaves[i]]_vars

\* The third insert has returned index 2.
C18_Witness ==
  /\ ret.op = "insert"
  /\ ret.index = 2
  /\ Len(treeInstance.leaves) = 3

\* C19: calculateMerkleRootAndZKProof fails before calling the prover when
\* the Merkle proof has no root, fails when the prover returns other than two
\* public signals, and otherwise returns the first signal as nullifierHash
\* and the second as root.
C19_PublicSignalsOrder ==
  ret.op = "calculateMerkleRootAndZKProof"
    => LET merkleProof  == ret.arg[1]
           proverResult == ret.arg[2]
           hasRoot      == merkleProof.present /\ merkleProof.root # <<>>
       IN  /\ ~hasRoot => ret.err # "" /\ ~ret.value.proverCalled
           /\ (hasRoot /\ ~proverResult.threw
                 /\ Len(proverResult.publicSignals) # 2) => ret.err # ""
           /\ (hasRoot /\ ~proverResult.threw
                 /\ Len(proverResult.publicSignals) = 2)
                => /\ ret.err = ""
                   /\ ret.value.nullifierHash = proverResult.publicSignals[1]
                   /\ ret.value.root = proverResult.publicSignals[2]

\* The prover returned two signals that differ from the root of the Merkle
\* proof, and the call returned them.
C19_Witness ==
  /\ ret.op = "calculateMerkleRootAndZKProof"
  /\ ret.err = ""
  /\ ret.value.nullifierHash = toString(11)
  /\ ret.value.root = toString(12)

RECURSIVE zkReplay(_, _)
zkReplay(zk, leaves) ==
  IF leaves = <<>> THEN zk
  ELSE zkReplay(zkInsert(zk, Head(leaves)).zk, Tail(leaves))

\* The root the k-th insertion produced (k = 0: the root of the empty tree),
\* recomputed from the Commit events.
insertionRoot(k) ==
  getLastRoot(zkReplay(NewZKTree(Levels),
                       [i \in 1..k |-> hexToBigInt(events.Commit[i].commitment)]))

InsertionRoots == {insertionRoot(k) : k \in 0..zkTree.nextIndex}

\* The last ROOT_HISTORY_SIZE roots written to the root history.
RecentRoots ==
  {recorded[i] : i \in {j \in 1..Len(recorded) :
                          j > Len(recorded) - ROOT_HISTORY_SIZE}}

\* C3: once a vote presenting a nullifier hash has succeeded, every later
\* vote presenting it is rejected, whatever candidate, root and proof it
\* carries; no nullifier hash is counted in more than one vote.
C3_NullifierCountedOnce ==
  /\ \A i \in 1..Len(events.VoteCast) :
       \A cid \in 0..MaxCountCandidates, r \in RootInputs, ok \in BOOLEAN :
         voteErr(cid, events.VoteCast[i].nullifier, r, ok) # ""
  /\ \A i, j \in 1..Len(events.VoteCast) :
       events.VoteCast[i].nullifier = events.VoteCast[j].nullifier => i = j
  /\ totalVotes = Len(events.VoteCast)

\* A vote presenting an already counted nullifier hash was just rejected.
C3_Witness ==
  /\ lastVote.err = "The nullifier has been submitted"
  /\ Len(events.VoteCast) > 0

\* C4: at most one commitment is ever inserted into the tree on behalf of a
\* voter address, also after unregisterVoter and a new registerVoter.
C4_OneCommitmentPerAddress ==
  \A i, j \in 1..Len(events.VoterRegistered) :
    events.VoterRegistered[i].voterAddress = events.VoterRegistered[j].voterAddress
      => i = j

\* C7: a root is known iff it is among the last ROOT_HISTORY_SIZE roots
\* recorded; the current root is known; a root an insertion produced is known
\* while fewer than ROOT_HISTORY_SIZE further insertions have happened, and
\* unknown once that many have.
C7_KnownIffAmongLastRecorded ==
  /\ \A r \in RootInputs : isKnownRoot(zkTree, r) <=> r \in RecentRoots
  /\ isKnownRoot(zkTree, getLastRoot(zkTree))
  /\ \A k \in 0..zkTree.nextIndex :
       isKnownRoot(zkTree, insertionRoot(k))
         <=> zkTree.nextIndex - k < ROOT_HISTORY_SIZE

\* C8: no root is known that no insertion produced.
C8_KnownRootsWereInserted ==
  \A r \in RootInputs : isKnownRoot(zkTree, r) => r \in InsertionRoots

\* C10: a vote that fails leaves the nullifier registry, every voteCount and
\* totalVotes unchanged; while voting is active, a nullifier hash not yet
\* counted is accepted with the current root and a valid proof.
C10_FailedVoteChangesNothing ==
  /\ [][(lastVote' # lastVote /\ lastVote'.err # "")
         => (/\ nullifiers' = nullifiers
             /\ candidates' = candidates
             /\ totalVotes' = totalVotes)]_vars
  /\ [](\A n \in NullifierInputs \ nullifiers, cid \in 1..candidatesCount :
          votingActive = "" => voteErr(cid, n, getLastRoot(zkTree), TRUE) = "")

\* A vote was just rejected for its root while the first root has aged out
\* of the history and a nullifier hash is still unused.
C10_Witness ==
  /\ lastVote.err = "Cannot find your merkle root"
  /\ votingActive = ""
  /\ candidatesCount > 0
  /\ ~isKnownRoot(zkTree, recorded[1])
  /\ NullifierInputs \ nullifiers # {}

\* Votes counted for a candidate according to the VoteCast events.
votesFor(candidateId) ==
  Cardinality({i \in 1..Len(events.VoteCast) :
                 events.VoteCast[i].candidateId = candidateId})

\* C11: a vote that passes all checks adds exactly 1 to the voteCount of its
\* candidate and to totalVotes and changes no other candidate; a candidate's
\* voteCount is the number of voters who voted for it.
C11_VoteCountsExactlyOne ==
  /\ [][Len(events'.VoteCast) = Len(events.VoteCast) + 1
         => LET cid == events'.VoteCast[Len(events'.VoteCast)].candidateId
            IN  /\ candidates'[cid].voteCount = candidates[cid].voteCount + 1
                /\ \A other \in (1..candidatesCount) \ {cid} :
                     candidates'[other] = candidates[other]
                /\ Len(candidates') = Len(candidates)
                /\ totalVotes' = totalVotes + 1]_vars
  /\ [](\A cid \in 1..candidatesCount :
          candidates[cid].voteCount = votesFor(cid))

\* Two registered voters have both voted for the second of two candidates.
C11_Witness ==
  /\ candidatesCount = 2
  /\ Len(events.VoterRegistered) = 2
  /\ candidates[2].voteCount = 2
  /\ candidates[1].voteCount = 0
  /\ Cardinality(nullifiers) = 2

\* ------------------------------------- properties of the voting period
\* startVoting has succeeded at some time: it alone writes the end time,
\* which is then later than the block time of the call.
votingWasStarted == votingStatus.endTime # 0

\* C25: once startVoting has succeeded no later addCandidate and no later
\* startVoting takes effect: the candidate list and the voting period stay
\* as they are, and voting is not switched on again.
C25_FrozenOnceStarted ==
  [][votingWasStarted
       => /\ candidates' = candidates
          /\ votingStatus'.endTime = votingStatus.endTime
          /\ (votingStatus'.isActive => votingStatus.isActive)]_vars

\* C26: after endVoting has succeeded getVotingStatus never reports
\* isActive = true again and no vote is counted any more.
C26_EndedStaysEnded ==
  /\ [](votingFlags.votingEnded => ~getVotingStatus.isActive)
  /\ [][votingFlags.votingEnded => events'.VoteCast = events.VoteCast]_vars

C30_RegistrationOnceAndAtomic ==
  /\ [][Len(events'.VoterRegistered) # Len(events.VoterRegistered)
         => LET e == events'.VoterRegistered[Len(events'.VoterRegistered)]
                a == e.voterAddress
            IN  /\ Len(events'.VoterRegistered) = Len(events.VoterRegistered) + 1
                /\ ~voters[a].registered
                /\ voters'[a].registered
                /\ voters'[a].uniqueHash \notin uniqueHashes
                /\ uniqueHashes' = uniqueHashes \cup {voters'[a].uniqueHash}
                /\ zkTree'.nextIndex = zkTree.nextIndex + 1
                /\ Len(events'.Commit) = Len(events.Commit) + 1
                /\ events'.Commit[Len(events'.Commit)].commitment = e.commitment
                /\ events'.Commit[Len(events'.Commit)].leafIndex = zkTree.nextIndex]_vars
  /\ [][(\/ uniqueHashes' # uniqueHashes
          \/ zkTree'.nextIndex # zkTree.nextIndex
          \/ zkTree'.filledSubtrees # zkTree.filledSubtrees
          \/ events'.Commit # events.Commit
          \/ \E a \in DOMAIN voters : voters'[a].registered /\ ~voters[a].registered)
         => Len(events'.VoterRegistered) = Len(events.VoterRegistered) + 1]_vars
  /\ [][uniqueHashes \subseteq uniqueHashes']_vars
  /\ [](\A s \in Senders, a \in DOMAIN voters, c \in MirrorCredentials :
          (s # admin \/ voters[a].registered \/ uniqueHashOf(c) \in uniqueHashes)
            => registerVoterErr(s, a, uniqueHashOf(c), commitmentOf(c)) # "")

\* An address was registered, unregistered and registered again under a
\* second unique hash, and is unregistered once more: both hashes are used
\* and no credential is left it could be registered with.
C30_Witness ==
  /\ Len(events.VoterRegistered) = 2
  /\ zkTree.nextIndex = 2
  /\ Cardinality(uniqueHashes) = 2
  /\ \A a \in DOMAIN voters : ~voters[a].registered

\* -------------------------------------------- properties of EVotingSystem
\* C28: EVotingSystem.vote is counted only in a state where getVotingStatus
\* reports isActive = true; no vote is counted at or after the end time set
\* by startVoting.
C28_EVoteOnlyWhileActive ==
  [][events'.VoteCast # events.VoteCast
       => (EVotingSystem_getVotingStatus.isActive /\ now < votingFlags.endTime)]_vars

\* The VoteCast events of an address.
votesOf(a) == {i \in 1..Len(events.VoteCast) : events.VoteCast[i].voter = a}

\* C29: every address has at most one vote counted: a vote is counted only
\* for a registered address that has not voted; hasVoted, once true, stays
\* true and votedCandidateId stays the same; a registration of a registered
\* address changes nothing, so the flag is not reset.
C29_OneVotePerAddress ==
  /\ [](\A a \in EVotingSenders :
          /\ Cardinality(votesOf(a)) <= 1
          /\ voters[a].hasVoted <=> votesOf(a) # {}
          /\ voters[a].hasVoted => voters[a].isRegistered
          /\ \A i \in votesOf(a) :
               events.VoteCast[i].candidateId = voters[a].votedCandidateId)
  /\ [][\A a \in EVotingSenders :
          /\ voters[a].hasVoted => voters'[a] = voters[a]
          /\ voters[a].isRegistered
               => /\ voters'[a].isRegistered
                  /\ Len(events'.VoterRegistered) = Len(events.VoterRegistered)
                        \/ events'.VoterRegistered[Len(events'.VoterRegistered)] # a
          /\ votesOf(a)' # votesOf(a)
               => voters[a].isRegistered /\ ~voters[a].hasVoted]_vars

\* Both addresses have voted, for different candidates, and a second vote
\* of one of them was just rejected.
C29_Witness ==
  /\ voters["alice"].hasVoted
  /\ voters["bob"].hasVoted
  /\ voters["alice"].votedCandidateId # voters["bob"].votedCandidateId
  /\ lastVote.err = "Voter has already voted"

\* The node at position pos of layer `level` of the tree over the leaves.
nodeAt(t, level, pos) == buildLayers(t.levels, t.leaves, t.zeros)[level + 1][pos + 1]

\* C24: after insert has placed a leaf, at every level where the inserted
\* node is a left child filledSubTrees[level] is that node's hash (for an
\* even index, filledSubTrees[0] is the leaf), and at every level where it
\* is a right child filledSubTrees[level], the sibling it was hashed with,
\* is the hash of its left sibling subtree.
C24_CheckpointsAreTheLeftNodes ==
  (ret.op = "insert" /\ ret.err = ""
     /\ Len(treeInstance.leaves) <= Pow2(Levels))
    => \A level \in 0..(Levels - 1) :
         LET pos == ret.index \div Pow2(level)
         IN  treeInstance.filledSubTrees[level + 1]
               = nodeAt(treeInstance, level, IF pos % 2 = 0 THEN pos ELSE pos - 1)

\* ------------------------------------------ properties of the proving
\* C23: a call of calculateMerkleRootAndZKProof that waits for the prover
\* does not wait forever: it ends, with a timeout error when the prover
\* never answers.
C23_ClientProofEventuallySettles ==
  (ret.op = AwaitFullProve) ~> (ret.op # AwaitFullProve)

\* ------------------------------------- properties of the two path builders
\* The path of zkProofs.generateMerkleProof, its elements as decimal strings.
pathStrings(pathElements) ==
  [l \in 1..Len(pathElements) |-> toString(pathElements[l])]

\* C32: for an inserted leafIndex whose leaf MerkleTree.generateProof finds
\* at that index, zkProofs.generateMerkleProof returns the same pathElements
\* and pathIndices as generateProof, and its path recombines with the leaf
\* to the Merkle root over the leaves.
C32_BothPathBuildersAgree ==
  (/\ ret.op = "zkProofs.generateMerkleProof"
   /\ ret.arg < Len(treeInstance.leaves)
   /\ truthy(treeInstance.leaves[ret.arg + 1])
   /\ findIndex(treeInstance.leaves, treeInstance.leaves[ret.arg + 1]) = ret.arg
   /\ generateProof(treeInstance, ret.arg).err = "")
    => LET g == generateProof(treeInstance, ret.arg).proof
       IN  /\ pathStrings(ret.proof.pathElements) = g.pathElements
           /\ ret.proof.pathIndices = g.pathIndices
           /\ checkMerkleProof(0, treeInstance.levels,
                               pathStrings(ret.proof.pathElements),
                               ret.proof.pathIndices,
                               treeInstance.leaves[ret.arg + 1])
                = BigInt(g.root)

\* ------------------------------------------------ properties of castVote
\* C33: a castVote that sent the vote transaction had read from the
\* contract that the proof's nullifier hash is unused and that voting is
\* active, had generated the Merkle path after its initializeMerkleTree
\* call settled, and held the proof of the prover for that path.
C33_CastVoteSubmitsAfterChecks ==
  ret.submitted
    => /\ ret.isNullifierUsed = "false"
       /\ ret.isActive = "true"
       /\ ret.rebuilt
       /\ mirror.pc = "done"
       /\ Len(ret.merkleProof.root) > 0
       /\ ret.proof.proverCalled
       /\ ret.proof.nullifierHash = ret.voterSecret.nullifierHash

\* castVote sent the vote and the contract counted it.
C33_Witness ==
  /\ ret.submitted
  /\ lastVote.err = ""
  /\ totalVotes = 1
  /\ ret.message = "Your vote has been successfully cast"

\* --------------------------------------------- properties of the admin
\* C31: in ZKVotingSystem and in EVotingSystem, addCandidate, registerVoter,
\* unregisterVoter, startVoting and endVoting sent by an account other than
\* the admin change no contract state, in whatever state they arrive.
C31_OnlyAdminChangesState ==
  /\ [][ZKVotingSystemDeployed =>
          \A s \in Senders \ {admin} :
            /\ addCandidate(s) => UNCHANGED contractVars
            /\ \A a \in VoterAddresses, c \in Credentials :
                 registerVoter(s, a, uniqueHashOf(c), commitmentOf(c))
                   => UNCHANGED contractVars
            /\ \A a \in VoterAddresses :
                 unregisterVoter(s, a) => UNCHANGED contractVars
            /\ \A d \in 0..1 : startVoting(s, d) => UNCHANGED contractVars
            /\ endVoting(s) => UNCHANGED contractVars]_vars
  /\ [][EVotingSystemDeployed =>
          \A s \in EVotingSenders \ {admin} :
            /\ EVotingSystem_addCandidate(s) => UNCHANGED contractVars
            /\ \A a \in EVotingVoters :
                 EVotingSystem_registerVoter(s, a) => UNCHANGED contractVars
            /\ \A d \in 0..1 :
                 EVotingSystem_startVoting(s, d) => UNCHANGED contractVars
            /\ EVotingSystem_endVoting(s) => UNCHANGED contractVars]_vars

\* In ZKVotingSystem the admin has added a candidate, registered and
\* unregistered a voter, and started and ended the voting.
C31_Witness ==
  /\ ZKVotingSystemDeployed
  /\ candidatesCount = 1
  /\ Len(events.VoterRegistered) = 1
  /\ ~voters["alice"].registered
  /\ votingStatus.endTime # 0
  /\ votingFlags.votingEnded

\* ------------------------------------------- properties of the mirror
\* The tree a rebuild from the given events yields when nothing else runs.
rebuiltFrom(commitEvents) ==
  replayEvents(initialize(NewMerkleTree(Levels)), sortedEvents(commitEvents))

InProgress == {"getLastRoot", "queryFilter"}

\* C21: a call of initializeMerkleTree that fetched the event log returns
\* the tree (leaves, filledSubTrees, root) that the log alone determines,
\* so that a second call with the same log returns the same tree.
C21_RebuildDependsOnLogOnly ==
  [][(mirror.pc = "queryFilter" /\ mirror'.pc = "done" /\ mirror'.fetched)
       => treeInstance' = rebuiltFrom(mirror'.commitEvents)]_vars

\* C22: generateMerkleProof or registerCommitment running while a rebuild
\* is at one of its await points works on the tree as it was before the
\* rebuild started or on the fully rebuilt tree.
C22_ReaderSeesOldOrRebuiltTree ==
  [][(mirror.pc \in InProgress /\ mirror'.pc = mirror.pc
        /\ ret'.op \in {"generateMerkleProof", "registerCommitment"})
       => \/ treeInstance = mirror.before
          \/ treeInstance = rebuiltFrom(events.Commit)]_vars

\* C34: when generateMerkleProof returns a proof from a tree that is the
\* replay of the events a finished rebuild fetched, the proof's root equals
\* the root that its pathElements and pathIndices recombine to with its
\* leaf, whatever the contract did between the reads of the rebuild.
C34_ProofRootIsRecombinedRoot ==
  (/\ ret.op = "generateMerkleProof"
   /\ ret.err = ""
   /\ mirror.pc = "done"
   /\ mirror.fetched
   /\ treeInstance = rebuiltFrom(mirror.commitEvents))
    => BigInt(ret.proof.root)
         = checkMerkleProof(0, Levels, ret.proof.pathElements,
                            ret.proof.pathIndices, BigInt(ret.proof.leaf))

\* C5: initializeMerkleTree returns a tree only when it read the contract
\* root and the events, and the rebuilt root equals the contract root.
C5_ReturnedTreeMatchesContractRoot ==
  mirror.outcome = "returned"
    => /\ mirror.caught = ""
       /\ formatForComparison(DecStr(toString(treeInstance.root)))
            = formatForComparison(mirror.lastRoot)

\* C6: after initializeMerkleTree has fetched n Commit events, in whatever
\* order, the tree has n leaves and leaf i is the commitment of the event
\* with leafIndex i.
C6_LeavesFollowLeafIndex ==
  (mirror.pc = "done" /\ mirror.fetched)
    => /\ Len(treeInstance.leaves) = Len(mirror.commitEvents)
       /\ \A k \in 1..Len(mirror.commitEvents) :
            treeInstance.leaves[mirror.commitEvents[k].leafIndex + 1]
              = hexToBigInt(mirror.commitEvents[k].commitment)

\* Three events were delivered last-first and the tree was rebuilt.
C6_Witness ==
  /\ mirror.pc = "done"
  /\ mirror.fetched
  /\ Len(mirror.commitEvents) = 3
  /\ mirror.commitEvents[1].leafIndex = 2
  /\ mirror.commitEvents[3].leafIndex = 0

====
